---- MODULE Spec2Model ----
(***************************************************************************)
(* calblink: the blink(1) device controller (BlinkerState), its control    *)
(* loop (patternRunner), the shutdown handler (signalHandler) and the      *)
(* polling loop that hands CalendarState requests to the control loop      *)
(* through the newState channel.                                           *)
(***************************************************************************)
EXTENDS Integers, Sequences, FiniteSets, TLC

\* Bound of the model: the configured ceiling maxFailures ranges over 0..MaxRetries.
MaxRetries == 1

(***************************************************************************)
(* Color states and the state algebra.                                     *)
(***************************************************************************)

\* blink1.State colors, by the name of the RGB triple.
OffState == "Off"

RedColor == "Red"

BlueColor == "Blue"

GreenColor == "Green"

YellowColor == "Yellow"

MagentaColor == "Magenta"

\* type CalendarState struct { Name, primary, secondary, primaryFlash, secondaryFlash, alternate }
\* Name is kept as the sequence of its parts; flash periods are in milliseconds.
CalendarState(n, p, s, pf, sf, a) ==
    [Name |-> n, primary |-> p, secondary |-> s,
     primaryFlash |-> pf, secondaryFlash |-> sf, alternate |-> a]

Black == CalendarState(<<"Black">>, OffState, OffState, 0, 0, FALSE)

Green == CalendarState(<<"Green">>, GreenColor, GreenColor, 0, 0, FALSE)

Yellow == CalendarState(<<"Yellow">>, YellowColor, YellowColor, 0, 0, FALSE)

Red == CalendarState(<<"Red">>, RedColor, RedColor, 0, 0, FALSE)

RedFlash == CalendarState(<<"Red Flash">>, RedColor, OffState, 500, 0, TRUE)

FastRedFlash == CalendarState(<<"Fast Red Flash">>, RedColor, OffState, 125, 0, TRUE)

BlueFlash == CalendarState(<<"Red-Blue Flash">>, BlueColor, RedColor, 500, 0, TRUE)

Blue == CalendarState(<<"Blue">>, BlueColor, BlueColor, 0, 0, FALSE)

MagentaFlash == CalendarState(<<"MagentaFlash">>, MagentaColor, OffState, 125, 0, TRUE)

CombineStatesSecondarySide(in1, in2) ==
    CalendarState(in1.Name \o <<"/">> \o in2.Name,
                  in1.primary, in2.secondary,
                  in1.primaryFlash, in2.secondaryFlash, FALSE)

SwapStateColorsOnly(in) ==
    CalendarState(in.Name \o <<" swapped">>,
                  in.secondary, in.primary,
                  in.primaryFlash, in.secondaryFlash, FALSE)

\* func CombineStates(in1, in2)
CombineStates(in1, in2) ==
    CalendarState(in1.Name \o <<"/">> \o in2.Name,
                  in1.primary, in2.primary,
                  in1.primaryFlash, in2.primaryFlash, FALSE)

\* func SwapState(in)
SwapState(in) ==
    CalendarState(in.Name \o <<" swapped">>,
                  in.secondary, in.primary,
                  in.secondaryFlash, in.primaryFlash, FALSE)

\* The requests the polling loop hands over in this model: Black (skip day, no
\* event), a solid two-event state, an alternating flash and a two-event state
\* whose second side alone flashes.
Requests ==
    {Black, CombineStates(Blue, Red), RedFlash, CombineStates(Blue, RedFlash)}

(***************************************************************************)
(* State.                                                                  *)
(***************************************************************************)
VARIABLES
    newState,       \* BlinkerState.newState: the channel's buffer, oldest first
    mpc,            \* polling loop: "idle", or "blocked" inside Execute's send
    mReq,           \* the request the polling loop is blocked sending
    device,         \* BlinkerState.device: "nil" or "open"
    failures,       \* BlinkerState.failures
    maxFailures,    \* BlinkerState.maxFailures
    leds,           \* the color last applied to LED 1 and LED 2
    rpc,            \* patternRunner: position in the loop
    spc,            \* setState: position inside the current call ("idle": no call)
    sArg,           \* setState: the blink1.State argument of the current call
    sErr,           \* setState: the err variable (TRUE: an error)
    err1,           \* patternRunner: err1 of the current pair of writes
    currentState,   \* patternRunner: currentState
    failing,        \* patternRunner: failing
    stateFlip,      \* patternRunner: stateFlip
    ticker,         \* patternRunner: ticker; "nil", "armed" or "fired" (drained)
    tickDur,        \* the duration the ticker was armed with, in milliseconds
    hpc,            \* signalHandler: position
    debugOn,        \* debugOut redirected to stdout by SIGQUIT
    exit,           \* "running", or the way the process ended
    lastEvent,      \* history: what the last select iteration of patternRunner did
    callOps,        \* history: open/write outcomes of the current setState call
    consecOpenFails,\* history: failed opens since the last successful open
    hSaw,           \* history: blinker.failures as read by signalHandler (-1: not read)
    hSent,          \* history: signalHandler has put Black into the channel
    hWrites,        \* history: direct writes started by signalHandler
    everFailed,     \* history: some device open or write has failed
    calPhase,       \* calendar side: "idle", "input", "selected", "fetched", "mapped", "fatal"
    delta,          \* blinkStateForDelta: its argument, in seconds (60 to the minute)
    blinkState,     \* the CalendarState returned by the mapper
    calendars,      \* fetchEvents: events.Items of each polled calendar, in poll order
    items,          \* nextEvent: its items argument
    locations,      \* nextEvent: its locations argument
    userPrefs,      \* the UserPrefs in force
    events,         \* the selection nextEvent returned
    pollFailures,   \* main: failures, the polling loop's count of failed fetches
    pollLog,        \* history: the outcome of each poll, "skip", "fail" or "ok"
    pollSent,       \* history: per poll, the requests it handed to execute
    tickPair        \* history: the colors of state1 and state2 of the last tick
                    \* since currentState took its value, <<>> before the first

vars ==
    <<newState, mpc, mReq, device, failures, maxFailures, leds, rpc, spc, sArg,
      sErr, err1, currentState, failing, stateFlip, ticker, tickDur, hpc,
      debugOn, exit, lastEvent, callOps, consecOpenFails, hSaw, hSent, hWrites,
      everFailed, calPhase, delta, blinkState, calendars, items, locations,
      userPrefs, events, pollFailures, pollLog, pollSent, tickPair>>

chanVars == <<newState, mpc, mReq>>

devVars == <<device, failures, leds, consecOpenFails, everFailed>>

callVars == <<spc, sArg, sErr, callOps>>

loopVars ==
    <<currentState, failing, stateFlip, ticker, tickDur, err1, lastEvent, tickPair>>

handlerVars == <<hpc, debugOn, hSaw, hSent, hWrites>>

pollVars == <<pollFailures, pollLog, pollSent>>

calVars ==
    <<calPhase, delta, blinkState, calendars, items, locations, userPrefs, events,
      pollVars>>

(***************************************************************************)
(* The newState channel: make(chan CalendarState, 1).                      *)
(***************************************************************************)
ChanCap == 1

CanSendCap2(ch) == Len(ch) < 2

CanSendNever(ch) == FALSE

CanSendAlways(ch) == TRUE

\* A send proceeds only while the buffer has room; otherwise the sender blocks.
CanSend(ch) == Len(ch) < ChanCap

\* A completed send appends to the buffer; nothing already there is touched.
ChanSend(ch, v) == Append(ch, v)

(***************************************************************************)
(* BlinkerState.reinitialize and setState, as outcome functions.           *)
(***************************************************************************)
OpenFailuresByTwo(f, ok) == IF ok THEN 0 ELSE f + 2

OpenFailuresNoReset(f, ok) == IF ok THEN f ELSE f + 1

\* reinitialize: failures++ on a failed open, failures = 0 on a successful one.
OpenFailures(f, ok) == IF ok THEN 0 ELSE f + 1

OpenFatalAtCeiling(f, max) == f >= max

\* reinitialize: log.Fatalf once the incremented counter exceeds maxFailures.
OpenFatal(f, max) == f > max

FirstWriteFailuresCounted(f, ok) == IF ok THEN 0 ELSE f + 1

\* setState: a successful first write resets failures; a failed write leaves it.
FirstWriteFailures(f, ok) == IF ok THEN 0 ELSE f

\* setState entry: reinitialize first when failures > 0.
NeedsReinit(f) == f > 0

\* reinitialize closes the handle only when there is one.
ReinitEntry(dev, closePos, openPos) == IF dev # "nil" THEN closePos ELSE openPos

SetStateEntryAlwaysReinit(f, dev) == ReinitEntry(dev, "r1c", "r1o")

SetStateEntryNeverReinit(f, dev) == "w1"

\* The position a setState call starts at.
SetStateEntry(f, dev) ==
    IF NeedsReinit(f) THEN ReinitEntry(dev, "r1c", "r1o") ELSE "w1"

\* device.SetState: LED 0 addresses both LEDs, 1 and 2 one side each.
ApplyWrite(l, arg) ==
    CASE arg.LED = 0 -> <<arg.color, arg.color>>
      [] arg.LED = 1 -> <<arg.color, l[2]>>
      [] OTHER -> <<l[1], arg.color>>

BlinkState(c, led, dur) == [color |-> c, LED |-> led, Duration |-> dur]

(***************************************************************************)
(* patternRunner helpers.                                                  *)
(***************************************************************************)
AdoptsAlways(ns, cur, f) == TRUE

AdoptsIfDifferent(ns, cur, f) == ns # cur

\* if newState != currentState || failing
Adopts(ns, cur, f) == ns # cur \/ f

CanRecvNever(ch) == FALSE

\* select: case newState := <-blinker.newState is ready when the buffer holds
\* a request.
CanRecv(ch) == ch # <<>>

StartFailingNever(err) == FALSE

\* failing := false; if err != nil { failing = true }
StartFailing(err) == err

FailingSecondOnly(e1, e2) == e2

\* failing = (err1 != nil) || (err2 != nil)
Failing(e1, e2) == e1 \/ e2

IsFlashingPrimaryOnly(cs) == cs.primaryFlash > 0

\* if newState.primaryFlash > 0 || newState.secondaryFlash > 0
IsFlashing(cs) == cs.primaryFlash > 0 \/ cs.secondaryFlash > 0

\* The writes of a solid request: primary on LED 1, secondary on LED 2.
SolidState1(cs) == BlinkState(cs.primary, 1, 0)

SolidState2(cs) == BlinkState(cs.secondary, 2, 0)

TickColor1NeverFlipped(cs, flip) == cs.primary

TickColor1OffWhenFlipped(cs, flip) ==
    IF ~flip THEN cs.primary
    ELSE IF cs.alternate THEN cs.secondary
    ELSE OffState

\* The timer branch: state1 and state2 of this tick.
TickColor1(cs, flip) ==
    IF ~flip THEN cs.primary
    ELSE IF cs.alternate THEN cs.secondary
    ELSE IF cs.primaryFlash > 0 THEN OffState ELSE cs.primary

TickColor2(cs, flip) ==
    IF ~flip THEN cs.secondary
    ELSE IF cs.alternate THEN cs.primary
    ELSE IF cs.secondaryFlash > 0 THEN OffState ELSE cs.secondary

TickState1(cs, flip) == BlinkState(TickColor1(cs, flip), 1, cs.primaryFlash)

TickState2(cs, flip) ==
    BlinkState(TickColor2(cs, flip), 2,
               IF cs.alternate THEN cs.primaryFlash ELSE cs.secondaryFlash)

NextTickPrimaryOnly(cs, flip) == TickState1(cs, flip).Duration

\* nextTick := state1.Duration; if state1.Duration == 0 { nextTick = state2.Duration }
NextTick(cs, flip) ==
    IF TickState1(cs, flip).Duration = 0
    THEN TickState2(cs, flip).Duration
    ELSE TickState1(cs, flip).Duration

(***************************************************************************)
(* signalHandler helper.                                                   *)
(***************************************************************************)
HandlerMayWriteAlways(f) == TRUE

\* if blinker.failures == 0 { send Black; direct write }
HandlerMayWrite(f) == f = 0

(***************************************************************************)
(* The calendar side: preferences, and the state in which no poll has run. *)
(***************************************************************************)
\* type UserPrefs struct: the fields the event selection and the mapper read.
\* Titles are sequences of words; Excludes is the key set of the map.
UserPrefs(excludes, prefixes, cals, rs, multi, prio, sites) ==
    [Excludes |-> excludes, ExcludePrefixes |-> prefixes, Calendars |-> cals,
     ResponseState |-> rs, MultiEvent |-> multi, PriorityFlashSide |-> prio,
     WorkingLocations |-> sites]

\* The preferences before any file is read: one calendar, nothing excluded.
DefaultPrefs == UserPrefs({}, <<>>, <<"primary">>, "notRejected", FALSE, 0, <<>>)

\* No poll has run: the calendar side holds nothing.
\* The polling loop of main has not run: failures := 0.
PollIdle ==
    /\ pollFailures = 0
    /\ pollLog = <<>>
    /\ pollSent = <<>>

CalIdle ==
    /\ calPhase = "idle"
    /\ delta = 0
    /\ blinkState = Black
    /\ calendars = <<>>
    /\ items = <<>>
    /\ locations = <<>>
    /\ userPrefs = DefaultPrefs
    /\ events = <<>>
    /\ PollIdle

(***************************************************************************)
(* Initial state: NewBlinkerState has run (its reinitialize opened the     *)
(* device or failed without reaching the ceiling) and the goroutines are   *)
(* about to start.                                                         *)
(***************************************************************************)
Init ==
    /\ maxFailures \in 0..MaxRetries
    /\ \E ok \in BOOLEAN :
        /\ ~(~ok /\ OpenFatal(OpenFailures(0, ok), maxFailures))
        /\ failures = OpenFailures(0, ok)
        /\ consecOpenFails = (IF ok THEN 0 ELSE 1)
        /\ device = (IF ok THEN "open" ELSE "nil")
        /\ everFailed = ~ok
    /\ newState = <<>>
    /\ mpc = "idle"
    /\ mReq = Black
    /\ leds = <<OffState, OffState>>
    /\ rpc = "init"
    /\ spc = "idle"
    /\ sArg = BlinkState(OffState, 0, 0)
    /\ sErr = FALSE
    /\ err1 = FALSE
    /\ currentState = Black
    /\ failing = FALSE
    /\ stateFlip = FALSE
    /\ tickPair = <<>>
    /\ ticker = "nil"
    /\ tickDur = 0
    /\ hpc = "wait"
    /\ debugOn = FALSE
    /\ exit = "running"
    /\ lastEvent = "none"
    /\ callOps = <<>>
    /\ hSaw = -1
    /\ hSent = FALSE
    /\ hWrites = 0
    /\ CalIdle

(***************************************************************************)
(* The polling loop (main): CalendarState.Execute is a channel send, which *)
(* blocks while the buffer is full.                                        *)
(***************************************************************************)
\* state.Execute(blinker) reached with request s: the send completes at once
\* when the buffer has room, and otherwise the loop blocks inside the send.
Execute ==
    /\ exit = "running"
    /\ mpc = "idle"
    /\ \E s \in Requests :
        IF CanSend(newState)
        THEN /\ newState' = ChanSend(newState, s)
             /\ UNCHANGED <<mpc, mReq>>
        ELSE /\ mpc' = "blocked"
             /\ mReq' = s
             /\ UNCHANGED newState
    /\ UNCHANGED <<devVars, maxFailures, calVars, rpc, callVars, loopVars, handlerVars, exit>>

\* The blocked send completes once the pattern runner has made room.
ExecuteUnblock ==
    /\ exit = "running"
    /\ mpc = "blocked"
    /\ CanSend(newState)
    /\ newState' = ChanSend(newState, mReq)
    /\ mpc' = "idle"
    /\ mReq' = Black
    /\ UNCHANGED <<devVars, maxFailures, calVars, rpc, callVars, loopVars, handlerVars, exit>>

(***************************************************************************)
(* BlinkerState.setState, one step per device operation.                   *)
(***************************************************************************)
\* A call of blinker.setState(arg) by the pattern runner.
CallSetState(arg) ==
    /\ spc' = SetStateEntry(failures, device)
    /\ sArg' = arg
    /\ sErr' = FALSE
    /\ callOps' = <<>>

\* The caller has taken the result and makes no further call.
NoCall ==
    /\ spc' = "idle"
    /\ sArg' = BlinkState(OffState, 0, 0)
    /\ sErr' = FALSE
    /\ callOps' = <<>>

\* reinitialize: blinker.device.Close(); blinker.device = nil
reinitializeClose ==
    /\ exit = "running"
    /\ spc \in {"r1c", "r2c"}
    /\ device' = "nil"
    /\ spc' = (IF spc = "r1c" THEN "r1o" ELSE "r2o")
    /\ callOps' = Append(callOps, "close")
    /\ UNCHANGED <<chanVars, failures, leds, consecOpenFails, everFailed, maxFailures, calVars,
                   rpc, sArg, sErr, loopVars, handlerVars, exit>>

\* reinitialize: blink1.OpenNextDevice() and the update of failures and device;
\* back in setState a failed open returns the error, a successful one goes on
\* to the write.
reinitializeOpen ==
    /\ exit = "running"
    /\ spc \in {"r1o", "r2o"}
    /\ \E ok \in BOOLEAN :
        /\ failures' = OpenFailures(failures, ok)
        /\ consecOpenFails' = (IF ok THEN 0 ELSE consecOpenFails + 1)
        /\ everFailed' = (everFailed \/ ~ok)
        /\ callOps' = Append(callOps, IF ok THEN "openOk" ELSE "openFail")
        /\ sErr' = ~ok
        /\ IF ~ok /\ OpenFatal(OpenFailures(failures, ok), maxFailures)
           THEN /\ exit' = "fatalOpen"
                /\ UNCHANGED <<device, spc>>
           ELSE /\ exit' = exit
                /\ device' = (IF ok THEN "open" ELSE "nil")
                /\ spc' = (IF ~ok THEN "ret" ELSE IF spc = "r1o" THEN "w1" ELSE "w2")
    /\ UNCHANGED <<chanVars, leds, maxFailures, calVars, rpc, sArg, loopVars, handlerVars>>

\* setState: err := blinker.device.SetState(state), the first write of the call.
setStateWrite ==
    /\ exit = "running"
    /\ spc = "w1"
    /\ IF device = "nil"
       THEN /\ exit' = "panic"
            /\ UNCHANGED <<devVars, callVars>>
       ELSE \E ok \in BOOLEAN :
            /\ leds' = (IF ok THEN ApplyWrite(leds, sArg) ELSE leds)
            /\ failures' = FirstWriteFailures(failures, ok)
            /\ everFailed' = (everFailed \/ ~ok)
            /\ callOps' = Append(callOps, IF ok THEN "writeOk" ELSE "writeFail")
            /\ sErr' = ~ok
            /\ spc' = (IF ok THEN "ret" ELSE ReinitEntry(device, "r2c", "r2o"))
            /\ UNCHANGED <<device, consecOpenFails, sArg, exit>>
    /\ UNCHANGED <<chanVars, maxFailures, calVars, rpc, loopVars, handlerVars>>

\* setState: err = blinker.device.SetState(state), the one retry.
setStateRetry ==
    /\ exit = "running"
    /\ spc = "w2"
    /\ IF device = "nil"
       THEN /\ exit' = "panic"
            /\ UNCHANGED <<devVars, callVars>>
       ELSE \E ok \in BOOLEAN :
            /\ leds' = (IF ok THEN ApplyWrite(leds, sArg) ELSE leds)
            /\ everFailed' = (everFailed \/ ~ok)
            /\ callOps' = Append(callOps, IF ok THEN "writeOk" ELSE "writeFail")
            /\ sErr' = ~ok
            /\ spc' = "ret"
            /\ UNCHANGED <<device, failures, consecOpenFails, sArg, exit>>
    /\ UNCHANGED <<chanVars, maxFailures, calVars, rpc, loopVars, handlerVars>>

(***************************************************************************)
(* BlinkerState.patternRunner.                                             *)
(***************************************************************************)
\* err := blinker.setState(currentState.primary), before the loop.
patternRunnerStart ==
    /\ exit = "running"
    /\ rpc = "init"
    /\ spc = "idle"
    /\ CallSetState(BlinkState(currentState.primary, 0, 0))
    /\ rpc' = "initW"
    /\ UNCHANGED <<chanVars, devVars, maxFailures, calVars, loopVars, handlerVars, exit>>

\* if err != nil { failing = true }; the loop is entered.
patternRunnerStartRet ==
    /\ exit = "running"
    /\ rpc = "initW"
    /\ spc = "ret"
    /\ failing' = StartFailing(sErr)
    /\ rpc' = "select"
    /\ lastEvent' = "start"
    /\ NoCall
    /\ UNCHANGED <<chanVars, devVars, maxFailures, calVars, currentState, stateFlip, ticker,
                   tickDur, err1, tickPair, handlerVars, exit>>

\* case newState := <-blinker.newState
patternRunnerRecv ==
    /\ exit = "running"
    /\ rpc = "select"
    /\ CanRecv(newState)
    /\ newState' = Tail(newState)
    /\ LET ns == Head(newState) IN
       IF Adopts(ns, currentState, failing)
       THEN /\ currentState' = ns
            /\ lastEvent' = "adopt"
            /\ tickPair' = (IF ns # currentState THEN <<>> ELSE tickPair)
            /\ IF IsFlashing(ns)
               THEN /\ ticker' = "armed"
                    /\ tickDur' = 1
                    /\ UNCHANGED <<rpc, callVars>>
               ELSE /\ ticker' = "nil"
                    /\ tickDur' = 0
                    /\ CallSetState(SolidState1(ns))
                    /\ rpc' = "reqW1"
       ELSE /\ lastEvent' = "noop"
            /\ UNCHANGED <<currentState, ticker, tickDur, rpc, callVars, tickPair>>
    /\ UNCHANGED <<mpc, mReq, devVars, maxFailures, calVars, failing, stateFlip, err1,
                   handlerVars, exit>>

\* err1 := blinker.setState(state1) has returned; err2 := blinker.setState(state2)
patternRunnerSolid2 ==
    /\ exit = "running"
    /\ rpc = "reqW1"
    /\ spc = "ret"
    /\ err1' = sErr
    /\ CallSetState(SolidState2(currentState))
    /\ rpc' = "reqW2"
    /\ UNCHANGED <<chanVars, devVars, maxFailures, calVars, currentState, failing, stateFlip,
                   ticker, tickDur, lastEvent, tickPair, handlerVars, exit>>

\* failing = (err1 != nil) || (err2 != nil)
patternRunnerSolidRet ==
    /\ exit = "running"
    /\ rpc = "reqW2"
    /\ spc = "ret"
    /\ failing' = Failing(err1, sErr)
    /\ err1' = FALSE
    /\ rpc' = "select"
    /\ NoCall
    /\ UNCHANGED <<chanVars, devVars, maxFailures, calVars, currentState, stateFlip, ticker,
                   tickDur, lastEvent, tickPair, handlerVars, exit>>

\* case <-ticker: state1 and state2 are computed and state1 is written.
patternRunnerTick ==
    /\ exit = "running"
    /\ rpc = "select"
    /\ ticker = "armed"
    /\ ticker' = "fired"
    /\ lastEvent' = "tick"
    /\ CallSetState(TickState1(currentState, stateFlip))
    /\ tickPair' = <<TickState1(currentState, stateFlip).color,
                     TickState2(currentState, stateFlip).color>>
    /\ rpc' = "tickW1"
    /\ UNCHANGED <<chanVars, devVars, maxFailures, calVars, currentState, failing, stateFlip,
                   tickDur, err1, handlerVars, exit>>

\* err1 := blinker.setState(state1) has returned; err2 := blinker.setState(state2)
patternRunnerTick2 ==
    /\ exit = "running"
    /\ rpc = "tickW1"
    /\ spc = "ret"
    /\ err1' = sErr
    /\ CallSetState(TickState2(currentState, stateFlip))
    /\ rpc' = "tickW2"
    /\ UNCHANGED <<chanVars, devVars, maxFailures, calVars, currentState, failing, stateFlip,
                   ticker, tickDur, lastEvent, tickPair, handlerVars, exit>>

\* failing = ...; stateFlip = !stateFlip; ticker = time.After(nextTick)
patternRunnerTickRet ==
    /\ exit = "running"
    /\ rpc = "tickW2"
    /\ spc = "ret"
    /\ failing' = Failing(err1, sErr)
    /\ err1' = FALSE
    /\ stateFlip' = ~stateFlip
    /\ tickDur' = NextTick(currentState, stateFlip)
    /\ ticker' = "armed"
    /\ rpc' = "select"
    /\ NoCall
    /\ UNCHANGED <<chanVars, devVars, maxFailures, calVars, currentState, lastEvent,
                   tickPair, handlerVars, exit>>

(***************************************************************************)
(* signalHandler.                                                          *)
(***************************************************************************)
\* s == syscall.SIGQUIT: debugOut = os.Stdout; continue
signalHandlerDebug ==
    /\ exit = "running"
    /\ hpc = "wait"
    /\ debugOn' = TRUE
    /\ UNCHANGED <<chanVars, devVars, maxFailures, calVars, rpc, callVars, loopVars, hpc, hSaw,
                   hSent, hWrites, exit>>

\* A terminating signal: blinker.failures is read; when it is zero Black is sent
\* (the send blocks while the buffer is full), otherwise log.Fatalf is next.
signalHandlerQuit ==
    /\ exit = "running"
    /\ hpc = "wait"
    /\ hSaw' = failures
    /\ IF HandlerMayWrite(failures)
       THEN IF CanSend(newState)
            THEN /\ newState' = ChanSend(newState, Black)
                 /\ hSent' = TRUE
                 /\ hpc' = "write"
            ELSE /\ hpc' = "blocked"
                 /\ UNCHANGED <<newState, hSent>>
       ELSE /\ hpc' = "fatal"
            /\ UNCHANGED <<newState, hSent>>
    /\ UNCHANGED <<mpc, mReq, devVars, maxFailures, calVars, rpc, callVars, loopVars, debugOn,
                   hWrites, exit>>

\* The blocked send of Black completes once the pattern runner has made room.
signalHandlerUnblock ==
    /\ exit = "running"
    /\ hpc = "blocked"
    /\ CanSend(newState)
    /\ newState' = ChanSend(newState, Black)
    /\ hSent' = TRUE
    /\ hpc' = "write"
    /\ UNCHANGED <<mpc, mReq, devVars, maxFailures, calVars, rpc, callVars, loopVars, debugOn,
                   hSaw, hWrites, exit>>

\* blinker.device.SetState(blink1.OffState) begins: the handler reads
\* blinker.device; a nil handle is a nil-pointer panic.
signalHandlerWriteBegin ==
    /\ exit = "running"
    /\ hpc = "write"
    /\ hWrites' = hWrites + 1
    /\ IF device = "nil"
       THEN /\ exit' = "panic"
            /\ hpc' = hpc
       ELSE /\ hpc' = "writing"
            /\ exit' = exit
    /\ UNCHANGED <<chanVars, devVars, maxFailures, calVars, rpc, callVars, loopVars, debugOn,
                   hSaw, hSent>>

\* The direct write ends; its error is ignored.
signalHandlerWriteEnd ==
    /\ exit = "running"
    /\ hpc = "writing"
    /\ \E ok \in BOOLEAN :
        /\ leds' = (IF ok THEN ApplyWrite(leds, BlinkState(OffState, 0, 0)) ELSE leds)
        /\ everFailed' = (everFailed \/ ~ok)
    /\ hpc' = "fatal"
    /\ UNCHANGED <<chanVars, device, failures, consecOpenFails, maxFailures, calVars, rpc,
                   callVars, loopVars, debugOn, hSaw, hSent, hWrites, exit>>

\* log.Fatalf("Quitting due to signal %v", s)
signalHandlerFatal ==
    /\ exit = "running"
    /\ hpc = "fatal"
    /\ exit' = "signal"
    /\ UNCHANGED <<chanVars, devVars, maxFailures, calVars, rpc, callVars, loopVars, handlerVars>>

(***************************************************************************)
(* The specification.                                                      *)
(***************************************************************************)
Next ==
    \/ Execute
    \/ ExecuteUnblock
    \/ reinitializeClose
    \/ reinitializeOpen
    \/ setStateWrite
    \/ setStateRetry
    \/ patternRunnerStart
    \/ patternRunnerStartRet
    \/ patternRunnerRecv
    \/ patternRunnerSolid2
    \/ patternRunnerSolidRet
    \/ patternRunnerTick
    \/ patternRunnerTick2
    \/ patternRunnerTickRet
    \/ signalHandlerDebug
    \/ signalHandlerQuit
    \/ signalHandlerUnblock
    \/ signalHandlerWriteBegin
    \/ signalHandlerWriteEnd
    \/ signalHandlerFatal

Spec == Init /\ [][Next]_vars

(***************************************************************************)
(* The device controller on its own: NewBlinkerState has run and setState  *)
(* is called again and again, as the pattern runner calls it, with any     *)
(* outcome of every open and every write.  The ceiling ranges further than *)
(* in Spec, so that calls are entered with every value of the failure      *)
(* counter below it.                                                       *)
(***************************************************************************)
MaxCeiling == 2

DevInit ==
    /\ maxFailures \in 0..MaxCeiling
    /\ \E ok \in BOOLEAN :
        /\ ~(~ok /\ OpenFatal(OpenFailures(0, ok), maxFailures))
        /\ failures = OpenFailures(0, ok)
        /\ consecOpenFails = (IF ok THEN 0 ELSE 1)
        /\ device = (IF ok THEN "open" ELSE "nil")
        /\ everFailed = ~ok
    /\ newState = <<>>
    /\ mpc = "idle"
    /\ mReq = Black
    /\ leds = <<OffState, OffState>>
    /\ rpc = "init"
    /\ spc = "idle"
    /\ sArg = BlinkState(OffState, 0, 0)
    /\ sErr = FALSE
    /\ err1 = FALSE
    /\ currentState = Black
    /\ failing = FALSE
    /\ stateFlip = FALSE
    /\ tickPair = <<>>
    /\ ticker = "nil"
    /\ tickDur = 0
    /\ hpc = "wait"
    /\ debugOn = FALSE
    /\ exit = "running"
    /\ lastEvent = "none"
    /\ callOps = <<>>
    /\ hSaw = -1
    /\ hSent = FALSE
    /\ hWrites = 0
    /\ CalIdle

\* blinker.setState(state) is called: at startup with Black's primary color,
\* later with the color of one side of the current state.
setStateCall ==
    /\ exit = "running"
    /\ spc \in {"idle", "ret"}
    /\ \E arg \in {BlinkState(OffState, 0, 0), BlinkState(RedColor, 1, 0),
                   BlinkState(BlueColor, 2, 500)} :
          CallSetState(arg)
    /\ UNCHANGED <<chanVars, devVars, maxFailures, calVars, rpc, loopVars,
                   handlerVars, exit>>

DevNext ==
    \/ setStateCall
    \/ reinitializeClose
    \/ reinitializeOpen
    \/ setStateWrite
    \/ setStateRetry

DevSpec == DevInit /\ [][DevNext]_vars

(***************************************************************************)
(* The blinker under fair scheduling.  The polling loop hands over Black   *)
(* and Red Flash only, no SIGQUIT arrives (it only switches debug output   *)
(* on), and the ceiling is LiveCeiling.  Every goroutine that can take a   *)
(* step eventually takes one; the select of the pattern runner chooses at  *)
(* random among its ready cases, so a request that is ready at infinitely  *)
(* many selects is eventually taken; a sender blocked on the channel is    *)
(* queued and gets the room the pattern runner makes.  The polling loop    *)
(* and the arrival of signals are under no obligation.                     *)
(***************************************************************************)
LiveCeiling == 0

LiveRequests == {Black, RedFlash}

LiveInit == Init /\ maxFailures <= LiveCeiling

\* state.Execute(blinker), with a request of LiveRequests.
ExecuteLive ==
    /\ exit = "running"
    /\ mpc = "idle"
    /\ \E s \in LiveRequests :
        IF CanSend(newState)
        THEN /\ newState' = ChanSend(newState, s)
             /\ UNCHANGED <<mpc, mReq>>
        ELSE /\ mpc' = "blocked"
             /\ mReq' = s
             /\ UNCHANGED newState
    /\ UNCHANGED <<devVars, maxFailures, calVars, rpc, callVars, loopVars, handlerVars, exit>>

\* The steps of the pattern runner other than the two cases of its select.
RunnerStep ==
    \/ reinitializeClose
    \/ reinitializeOpen
    \/ setStateWrite
    \/ setStateRetry
    \/ patternRunnerStart
    \/ patternRunnerStartRet
    \/ patternRunnerSolid2
    \/ patternRunnerSolidRet
    \/ patternRunnerTick2
    \/ patternRunnerTickRet

\* The steps of signalHandler after its send.
HandlerStep ==
    \/ signalHandlerWriteBegin
    \/ signalHandlerWriteEnd
    \/ signalHandlerFatal

LiveNext ==
    \/ ExecuteLive
    \/ ExecuteUnblock
    \/ reinitializeClose
    \/ reinitializeOpen
    \/ setStateWrite
    \/ setStateRetry
    \/ patternRunnerStart
    \/ patternRunnerStartRet
    \/ patternRunnerRecv
    \/ patternRunnerSolid2
    \/ patternRunnerSolidRet
    \/ patternRunnerTick
    \/ patternRunnerTick2
    \/ patternRunnerTickRet
    \/ signalHandlerQuit
    \/ signalHandlerUnblock
    \/ signalHandlerWriteBegin
    \/ signalHandlerWriteEnd
    \/ signalHandlerFatal

Fairness ==
    /\ WF_vars(RunnerStep)
    /\ WF_vars(HandlerStep)
    /\ SF_vars(patternRunnerRecv)
    /\ SF_vars(signalHandlerUnblock)

LiveSpec == LiveInit /\ [][LiveNext]_vars /\ Fairness

(***************************************************************************)
(* The blinker side at rest, for the specifications of the calendar side:  *)
(* the device is open and no goroutine has moved.                          *)
(***************************************************************************)
BlinkerIdle ==
    /\ maxFailures = 0
    /\ failures = 0
    /\ consecOpenFails = 0
    /\ device = "open"
    /\ everFailed = FALSE
    /\ newState = <<>>
    /\ mpc = "idle"
    /\ mReq = Black
    /\ leds = <<OffState, OffState>>
    /\ rpc = "init"
    /\ spc = "idle"
    /\ sArg = BlinkState(OffState, 0, 0)
    /\ sErr = FALSE
    /\ err1 = FALSE
    /\ currentState = Black
    /\ failing = FALSE
    /\ stateFlip = FALSE
    /\ tickPair = <<>>
    /\ ticker = "nil"
    /\ tickDur = 0
    /\ hpc = "wait"
    /\ debugOn = FALSE
    /\ exit = "running"
    /\ lastEvent = "none"
    /\ callOps = <<>>
    /\ hSaw = -1
    /\ hSent = FALSE
    /\ hWrites = 0

(***************************************************************************)
(* The delta-to-color mapper.  delta is time until the start in minutes, a *)
(* float64 in the code; here it is counted in seconds, so a threshold of   *)
(* k minutes is the integer SecondsPerMinute * k.                          *)
(***************************************************************************)
SecondsPerMinute == 60

\* Bound of the model: delta ranges over -MaxDelta..MaxDelta seconds.
MaxDelta == 3700

blinkStateForDeltaInclusive(d) ==
    CASE d < -1 * SecondsPerMinute -> Blue
      [] d <= 0 -> BlueFlash
      [] d < 2 * SecondsPerMinute -> FastRedFlash
      [] d < 5 * SecondsPerMinute -> RedFlash
      [] d < 10 * SecondsPerMinute -> Red
      [] d < 30 * SecondsPerMinute -> Yellow
      [] d < 60 * SecondsPerMinute -> Green
      [] OTHER -> Black

\* func blinkStateForDelta(delta): a switch whose first true case wins, Black
\* when none is.
blinkStateForDelta(d) ==
    CASE d < -1 * SecondsPerMinute -> Blue
      [] d < 0 -> BlueFlash
      [] d < 2 * SecondsPerMinute -> FastRedFlash
      [] d < 5 * SecondsPerMinute -> RedFlash
      [] d < 10 * SecondsPerMinute -> Red
      [] d < 30 * SecondsPerMinute -> Yellow
      [] d < 60 * SecondsPerMinute -> Green
      [] OTHER -> Black

\* The mapper is about to be called with some delta.
MapInit ==
    /\ BlinkerIdle
    /\ PollIdle
    /\ calPhase = "input"
    /\ delta \in -MaxDelta..MaxDelta
    /\ blinkState = Black
    /\ calendars = <<>>
    /\ items = <<>>
    /\ locations = <<>>
    /\ userPrefs = DefaultPrefs
    /\ events = <<>>

\* blinkState := blinkStateForDelta(delta)
blinkStateForDeltaCall ==
    /\ calPhase = "input"
    /\ blinkState' = blinkStateForDelta(delta)
    /\ calPhase' = "mapped"
    /\ UNCHANGED <<chanVars, devVars, maxFailures, rpc, callVars, loopVars,
                   handlerVars, exit, pollVars>>
    /\ UNCHANGED <<delta, calendars, items, locations, userPrefs, events>>

MapNext == blinkStateForDeltaCall

MapSpec == MapInit /\ [][MapNext]_vars

(***************************************************************************)
(* Calendar events.  Strings the code splits or matches by prefix (titles, *)
(* location labels, the configured working locations) are sequences of     *)
(* tokens; timestamps are strings that time.Parse accepts or rejects.      *)
(***************************************************************************)
\* The RFC 3339 timestamps of the model and the instant each one denotes, in
\* minutes since 2024-05-01T00:00:00Z.  Two of them denote the same instant.
TimeOf ==
    "2024-05-01T08:00:00Z" :> 480 @@
    "2024-05-01T09:00:00Z" :> 540 @@
    "2024-05-02T07:00:00Z" :> 1860 @@
    "2024-05-02T09:50:00Z" :> 2030 @@
    "2024-05-02T09:59:00Z" :> 2039 @@
    "2024-05-02T10:00:00Z" :> 2040 @@
    "2024-05-02T10:01:00Z" :> 2041 @@
    "2024-05-02T10:03:00Z" :> 2043 @@
    "2024-05-02T10:04:00Z" :> 2044 @@
    "2024-05-02T10:06:00Z" :> 2046 @@
    "2024-05-02T12:06:00+02:00" :> 2046 @@
    "2024-05-02T10:08:00Z" :> 2048 @@
    "2024-05-02T10:20:00Z" :> 2060 @@
    "2024-05-02T10:40:00Z" :> 2080 @@
    "2024-05-02T11:10:00Z" :> 2110 @@
    "2024-05-02T12:10:00Z" :> 2170

\* time.Parse(time.RFC3339, s): the instant, or an error.
ParseTime(s) ==
    IF s \in DOMAIN TimeOf THEN [err |-> FALSE, t |-> TimeOf[s]]
    ELSE [err |-> TRUE, t |-> 0]

\* calendar.EventAttendee: Self and ResponseStatus.
Attendee(self, status) == [Self |-> self, ResponseStatus |-> status]

\* calendar.Event: the fields the code reads.  Start.DateTime is "" for an
\* all-day event; Location holds WorkingLocationProperties (its Type and the
\* label of the office or custom location).
Event(id, summary, type, start, end, created, location, attendees) ==
    [Id |-> id, Summary |-> summary, EventType |-> type,
     Start |-> [DateTime |-> start], End |-> [DateTime |-> end],
     Created |-> created, Location |-> location, Attendees |-> attendees]

NoLocation == [Type |-> <<>>, Label |-> <<>>]

Meeting(id, summary, start, attendees) ==
    Event(id, summary, "default", start, start, "2024-05-01T08:00:00Z",
          NoLocation, attendees)

\* strings.HasPrefix(s, prefix)
HasPrefix(s, prefix) ==
    Len(prefix) <= Len(s) /\ SubSeq(s, 1, Len(prefix)) = prefix

\* strings.SplitN(location, ":", 2): cut at the first ":" token, if any.
SplitN2(location) ==
    LET colons == {i \in DOMAIN location : location[i] = ":"} IN
    IF colons = {} THEN <<location>>
    ELSE LET k == CHOOSE i \in colons : \A j \in colons : i <= j IN
         <<SubSeq(location, 1, k - 1), SubSeq(location, k + 1, Len(location))>>

WorkSiteHome == "Home"
WorkSiteOffice == "Office"
WorkSiteCustom == "Custom"

\* func makeWorkSiteType(location)
makeWorkSiteType(location) ==
    CASE location \in {<<"officeLocation">>, <<"office">>} -> WorkSiteOffice
      [] location \in {<<"customLocation">>, <<"custom">>} -> WorkSiteCustom
      [] OTHER -> WorkSiteHome

\* type WorkSite struct { SiteType, Name }
WorkSite(siteType, name) == [SiteType |-> siteType, Name |-> name]

\* func makeWorkSite(location)
makeWorkSite(location) ==
    LET split == SplitN2(location) IN
    WorkSite(makeWorkSiteType(split[1]),
             IF Len(split) > 1 THEN split[2] ELSE <<>>)

(***************************************************************************)
(* The event selector: nextEvent and the tests it applies.                 *)
(***************************************************************************)
eventHasAcceptableResponseNeedsSelf(item, responseState) ==
    \E i \in DOMAIN item.Attendees :
        /\ item.Attendees[i].Self
        /\ item.Attendees[i].ResponseStatus # "declined"
selectionFullAtOne(evs, prefs) == Len(evs) = 1
locationMatchOrNoLocations(locs, prefs) ==
    \/ locs = <<>>
    \/ \E i \in DOMAIN prefs.WorkingLocations :
           \E j \in DOMAIN locs : prefs.WorkingLocations[i] = locs[j]

\* func (state ResponseState) CheckStatus(status)
CheckStatus(state, status) ==
    CASE state = "all" -> TRUE
      [] state = "accepted" -> status = "accepted"
      [] state = "notRejected" -> status # "declined"
      [] OTHER -> FALSE

\* func eventHasAcceptableResponse: the first attendee marked Self decides; an
\* event without one is accepted.
eventHasAcceptableResponse(item, responseState) ==
    LET selfs == {i \in DOMAIN item.Attendees : item.Attendees[i].Self} IN
    IF selfs = {} THEN TRUE
    ELSE LET k == CHOOSE i \in selfs : \A j \in selfs : i <= j IN
         CheckStatus(responseState, item.Attendees[k].ResponseStatus)

\* func eventExcludedByPrefs(item, userPrefs)
eventExcludedByPrefs(item, prefs) ==
    \/ item \in prefs.Excludes
    \/ \E i \in DOMAIN prefs.ExcludePrefixes :
           HasPrefix(item, prefs.ExcludePrefixes[i])

\* nextEvent: len(events) == 2 || (len(events) == 1 && !userPrefs.MultiEvent)
selectionFull(evs, prefs) ==
    Len(evs) = 2 \/ (Len(evs) = 1 /\ ~prefs.MultiEvent)

\* nextEvent: the loop over items, from index i on with evs selected so far.
RECURSIVE nextEventLoop(_, _, _, _)
nextEventLoop(its, i, evs, prefs) ==
    IF i > Len(its) THEN evs
    ELSE IF /\ its[i].Start.DateTime # ""
            /\ ~eventExcludedByPrefs(its[i].Summary, prefs)
            /\ eventHasAcceptableResponse(its[i], prefs.ResponseState)
         THEN LET evs2 == Append(evs, its[i]) IN
              IF selectionFull(evs2, prefs) THEN evs2
              ELSE nextEventLoop(its, i + 1, evs2, prefs)
         ELSE nextEventLoop(its, i + 1, evs, prefs)

\* nextEvent: some configured working location is a key of locationSet.
locationMatch(locs, prefs) ==
    \E i \in DOMAIN prefs.WorkingLocations :
        \E j \in DOMAIN locs : prefs.WorkingLocations[i] = locs[j]

\* func nextEvent(items, locations, userPrefs)
nextEvent(its, locs, prefs) ==
    IF Len(prefs.WorkingLocations) > 0 /\ ~locationMatch(locs, prefs) THEN <<>>
    ELSE nextEventLoop(its, 1, <<>>, prefs)

\* Bound of the model: nextEvent is called with at most MaxItems items.
MaxItems == 3

\* The events nextEvent is called with: an excluded title, accepted and
\* declined meetings, an excluded prefix, an all-day event, a meeting whose
\* attendees include others, and a meeting without a record of the user.
SelPool ==
    { Meeting("a", <<"Lunch">>, "2024-05-02T10:01:00Z",
              <<Attendee(TRUE, "accepted")>>),
      Meeting("b", <<"Standup">>, "2024-05-02T10:03:00Z",
              <<Attendee(TRUE, "accepted")>>),
      Meeting("c", <<"Review">>, "2024-05-02T10:08:00Z",
              <<Attendee(TRUE, "declined")>>),
      Meeting("d", <<"Hold", "desk">>, "2024-05-02T10:04:00Z", <<>>),
      Meeting("e", <<"Offsite">>, "", <<Attendee(TRUE, "accepted")>>),
      Meeting("f", <<"Planning">>, "2024-05-02T10:20:00Z",
              <<Attendee(FALSE, "declined"), Attendee(TRUE, "tentative")>>),
      Meeting("g", <<"Sync">>, "2024-05-02T10:06:00Z",
              <<Attendee(FALSE, "declined")>>) }

\* The workingLocations entries of the configuration file.
LocationFilters ==
    { <<>>,
      << <<"home">> >>,
      << <<"office", ":">> >>,
      << <<"home", ":", "den">>, <<"office", ":", "HQ">> >> }

\* The active work sites fetchEvents can hand over.
ActiveLocations ==
    { <<>>,
      <<WorkSite(WorkSiteHome, <<>>)>>,
      <<WorkSite(WorkSiteOffice, <<"HQ">>)>>,
      <<WorkSite(WorkSiteOffice, <<"Annex">>)>> }

\* The preferences read from a configuration that excludes the title Lunch and
\* the prefix Hold.
SelPrefs ==
    { UserPrefs({<<"Lunch">>}, <<<<"Hold">>>>, <<"primary">>, rs, multi, 0,
                [i \in DOMAIN f |-> makeWorkSite(f[i])]) :
        rs \in {"all", "accepted", "notRejected"}, multi \in BOOLEAN,
        f \in LocationFilters }

\* nextEvent is about to be called.
SelInit ==
    /\ BlinkerIdle
    /\ PollIdle
    /\ calPhase = "input"
    /\ delta = 0
    /\ blinkState = Black
    /\ calendars = <<>>
    /\ items \in UNION {[1..n -> SelPool] : n \in 0..MaxItems}
    /\ locations \in ActiveLocations
    /\ userPrefs \in SelPrefs
    /\ events = <<>>

\* events := nextEvent(items, locations, userPrefs)
nextEventCall ==
    /\ calPhase = "input"
    /\ events' = nextEvent(items, locations, userPrefs)
    /\ calPhase' = "selected"
    /\ UNCHANGED <<chanVars, devVars, maxFailures, rpc, callVars, loopVars,
                   handlerVars, exit, pollVars>>
    /\ UNCHANGED <<delta, blinkState, calendars, items, locations, userPrefs>>

SelNext == nextEventCall

SelSpec == SelInit /\ [][SelNext]_vars

(***************************************************************************)
(* fetchEvents: the active work site of each calendar, the pooled events,  *)
(* the merge for several calendars, and the selection.                     *)
(***************************************************************************)
\* The zero time.Time of var locationCreated: before every instant.
ZeroTime == -1

\* The poll's now, and the minutes of the lookahead: now.Add(2 * time.Hour).
Now == TimeOf["2024-05-02T10:00:00Z"]
LookaheadMinutes == 120

locationSkippedNever(parsed, locationCreated) == FALSE
calendarItemsUnlessOutOfOffice(its) ==
    IF \E i \in DOMAIN its :
           /\ its[i].EventType = "outOfOffice"
           /\ ~ParseTime(its[i].Start.DateTime).err
           /\ ~ParseTime(its[i].End.DateTime).err
           /\ ParseTime(its[i].Start.DateTime).t <= Now
           /\ ParseTime(its[i].End.DateTime).t >= Now + LookaheadMinutes
    THEN <<>> ELSE its
lessOrEqual(e1, e2) ==
    ParseTime(e1.Start.DateTime).t <= ParseTime(e2.Start.DateTime).t
sortFatalAlone(filtered) ==
    \E i \in DOMAIN filtered : ParseTime(filtered[i].Start.DateTime).err

\* fetchEvents: err != nil || thisCreated.Before(locationCreated), on which the
\* workingLocation event is passed over.
locationSkipped(parsed, locationCreated) ==
    parsed.err \/ parsed.t < locationCreated

\* fetchEvents: the WorkSite of a workingLocation event; only an office or a
\* custom location carries its label.
eventWorkSite(event) ==
    LET locationType == makeWorkSiteType(event.Location.Type) IN
    WorkSite(locationType,
             IF locationType \in {WorkSiteOffice, WorkSiteCustom}
             THEN event.Location.Label ELSE <<>>)

\* fetchEvents: the loop over one calendar's events.Items from index i on, with
\* locationCreated and location as they stand.
RECURSIVE locationLoop(_, _, _, _)
locationLoop(its, i, locationCreated, location) ==
    IF i > Len(its) THEN [locationCreated |-> locationCreated, location |-> location]
    ELSE IF /\ its[i].EventType = "workingLocation"
            /\ ~locationSkipped(ParseTime(its[i].Created), locationCreated)
         THEN locationLoop(its, i + 1, ParseTime(its[i].Created).t,
                           eventWorkSite(its[i]))
         ELSE locationLoop(its, i + 1, locationCreated, location)

\* fetchEvents: allEvents = append(allEvents, events.Items...)
calendarItems(its) == its

\* fetchEvents: the loop over userPrefs.Calendars from calendar c on.
RECURSIVE calendarLoop(_, _, _, _)
calendarLoop(cals, c, allEvents, locs) ==
    IF c > Len(cals) THEN [allEvents |-> allEvents, locations |-> locs]
    ELSE LET found == locationLoop(cals[c], 1, ZeroTime,
                                   WorkSite(WorkSiteHome, <<>>)) IN
         calendarLoop(cals, c + 1, allEvents \o calendarItems(cals[c]),
                      IF found.locationCreated # ZeroTime
                      THEN Append(locs, found.location) ELSE locs)

\* fetchEvents: the filter loop; a seen id and an all-day event are dropped.
RECURSIVE filterEvents(_, _, _, _)
filterEvents(allEvents, i, filtered, seen) ==
    IF i > Len(allEvents) THEN filtered
    ELSE IF allEvents[i].Id \in seen \/ allEvents[i].Start.DateTime = ""
         THEN filterEvents(allEvents, i + 1, filtered, seen)
         ELSE filterEvents(allEvents, i + 1, Append(filtered, allEvents[i]),
                           seen \cup {allEvents[i].Id})

\* The comparison of sort.SliceStable: t1.Before(t2).
less(e1, e2) ==
    ParseTime(e1.Start.DateTime).t < ParseTime(e2.Start.DateTime).t

\* sort.SliceStable on a short slice is an insertion sort: each element moves
\* down past the elements it is less than.
RECURSIVE insertSorted(_, _)
insertSorted(sorted, e) ==
    IF sorted = <<>> THEN <<e>>
    ELSE IF less(e, sorted[Len(sorted)])
         THEN Append(insertSorted(SubSeq(sorted, 1, Len(sorted) - 1), e),
                     sorted[Len(sorted)])
         ELSE Append(sorted, e)

RECURSIVE sortSliceStable(_)
sortSliceStable(filtered) ==
    IF filtered = <<>> THEN <<>>
    ELSE insertSorted(sortSliceStable(SubSeq(filtered, 1, Len(filtered) - 1)),
                      filtered[Len(filtered)])

\* The comparison runs only for a slice of two or more, and then on every
\* element; it ends the process with log.Fatalf on a time that does not parse.
sortFatal(filtered) ==
    /\ Len(filtered) >= 2
    /\ \E i \in DOMAIN filtered : ParseTime(filtered[i].Start.DateTime).err

(***************************************************************************)
(* blinkStateForEvent: the display state for the selection.                *)
(***************************************************************************)
prioritySwapUnlessFlashing(priority, state) ==
    \/ priority = 1 /\ state.primaryFlash = 0
    \/ priority = 2 /\ state.secondaryFlash = 0

\* blinkStateForEvent: the priority side is not flashing and the other side is.
prioritySwap(priority, state) ==
    \/ /\ priority = 1
       /\ state.primaryFlash = 0
       /\ state.secondaryFlash > 0
    \/ /\ priority = 2
       /\ state.primaryFlash > 0
       /\ state.secondaryFlash = 0

\* blinkStateForEvent: the loop over next from index i on, with blinkState as
\* it stands.  A start time that does not parse is printed and ends the loop.
RECURSIVE blinkStateForEventLoop(_, _, _, _)
blinkStateForEventLoop(next, i, state, priority) ==
    IF i > Len(next) THEN state
    ELSE LET parsed == ParseTime(next[i].Start.DateTime) IN
         IF parsed.err THEN state
         ELSE LET d == (parsed.t - Now) * SecondsPerMinute
                  secondary == blinkStateForDelta(d)
                  combined ==
                      IF secondary # Black THEN CombineStates(state, secondary)
                      ELSE state
              IN blinkStateForEventLoop(next, i + 1,
                     IF i = 1 THEN blinkStateForDelta(d)
                     ELSE IF prioritySwap(priority, combined)
                          THEN SwapState(combined) ELSE combined,
                     priority)

\* func blinkStateForEvent(next, priority)
blinkStateForEvent(next, priority) ==
    blinkStateForEventLoop(next, 1, Black, priority)

(***************************************************************************)
(* One poll: fetchEvents, then blinkStateForEvent on what it returned.     *)
(***************************************************************************)
\* Bound of the model: the polled calendars hold at most MaxEvents events
\* between them.
MaxEvents == 3

WorkingLocation(id, start, end, created, type, label) ==
    Event(id, <<"Working location">>, "workingLocation", start, end, created,
          [Type |-> type, Label |-> label], <<>>)

\* The events the calendars can hold: meetings (two at the same time, one
\* seen through a second calendar with its time in another zone, one with a
\* start time that does not parse, one all-day), working locations (all-day
\* and for part of the day, created at different times and at the same time)
\* and an out-of-office period that covers the lookahead.
FetchPool ==
    { Meeting("b", <<"Standup">>, "2024-05-02T10:03:00Z",
              <<Attendee(TRUE, "accepted")>>),
      Meeting("k", <<"Kickoff">>, "2024-05-02T10:03:00Z", <<>>),
      Meeting("g", <<"Sync">>, "2024-05-02T10:06:00Z",
              <<Attendee(FALSE, "declined")>>),
      Meeting("g", <<"Sync">>, "2024-05-02T12:06:00+02:00",
              <<Attendee(FALSE, "declined")>>),
      Meeting("e", <<"Offsite">>, "", <<Attendee(TRUE, "accepted")>>),
      Meeting("x", <<"Retro">>, "next Tuesday", <<>>),
      WorkingLocation("w1", "", "", "2024-05-01T08:00:00Z",
                      <<"homeOffice">>, <<>>),
      WorkingLocation("w2", "2024-05-02T09:50:00Z", "2024-05-02T12:10:00Z",
                      "2024-05-01T09:00:00Z", <<"officeLocation">>, <<"HQ">>),
      WorkingLocation("w3", "", "", "2024-05-02T07:00:00Z",
                      <<"homeOffice">>, <<>>),
      WorkingLocation("w4", "2024-05-02T10:01:00Z", "2024-05-02T12:10:00Z",
                      "2024-05-01T09:00:00Z", <<"customLocation">>, <<"Cafe">>),
      Event("o", <<"Out of office">>, "outOfOffice", "2024-05-02T09:50:00Z",
            "2024-05-02T12:10:00Z", "2024-05-01T08:00:00Z", NoLocation, <<>>) }

\* Events.List with SingleEvents and OrderBy("startTime"): an id occurs once,
\* all-day events come first and timed events follow by start time.
CalendarOrdered(its) ==
    /\ \A i, j \in DOMAIN its : i # j => its[i].Id # its[j].Id
    /\ \A i, j \in DOMAIN its :
           i < j =>
               \/ its[i].Start.DateTime = ""
               \/ /\ its[j].Start.DateTime # ""
                  /\ \/ ParseTime(its[i].Start.DateTime).err
                     \/ ParseTime(its[j].Start.DateTime).err
                     \/ ParseTime(its[i].Start.DateTime).t
                            <= ParseTime(its[j].Start.DateTime).t

\* The responses Events.List can give for one calendar, of at most n events.
CalendarLists(n) ==
    {its \in UNION {[1..k -> FetchPool] : k \in 0..n} : CalendarOrdered(its)}

\* The preferences of a poll of n calendars.
FetchPrefs(n) ==
    { UserPrefs({}, <<>>,
                IF n = 1 THEN <<"primary">> ELSE <<"primary", "team">>,
                "notRejected", multi, prio,
                [i \in DOMAIN f |-> makeWorkSite(f[i])]) :
        multi \in BOOLEAN, prio \in {0, 1, 2},
        f \in {<<>>, << <<"office", ":", "HQ">> >>} }

\* fetchEvents is about to be called for one or two calendars.
FetchInit ==
    /\ BlinkerIdle
    /\ PollIdle
    /\ calPhase = "input"
    /\ delta = 0
    /\ blinkState = Black
    /\ calendars \in
           {<<c1>> : c1 \in CalendarLists(MaxEvents)} \cup
           UNION {{<<c1, c2>> : c2 \in CalendarLists(MaxEvents - Len(c1))} :
                      c1 \in CalendarLists(MaxEvents)}
    /\ userPrefs \in FetchPrefs(Len(calendars))
    /\ items = <<>>
    /\ locations = <<>>
    /\ events = <<>>

\* next, err := fetchEvents(now, srv, userPrefs) with err == nil: items is the
\* list handed to nextEvent.  With several calendars a time that does not
\* parse ends the process inside the sort.
fetchEventsCall ==
    /\ calPhase = "input"
    /\ LET polled == calendarLoop(calendars, 1, <<>>, <<>>)
           filtered == filterEvents(polled.allEvents, 1, <<>>, {})
           merge == Len(userPrefs.Calendars) > 1
       IN IF merge /\ sortFatal(filtered)
          THEN /\ calPhase' = "fatal"
               /\ exit' = "fatalTime"
               /\ UNCHANGED <<items, locations, events>>
          ELSE /\ calPhase' = "fetched"
               /\ items' = (IF merge THEN sortSliceStable(filtered)
                            ELSE polled.allEvents)
               /\ locations' = polled.locations
               /\ events' = nextEvent(items', locations', userPrefs)
               /\ UNCHANGED exit
    /\ UNCHANGED <<chanVars, devVars, maxFailures, rpc, callVars, loopVars,
                   handlerVars, pollVars>>
    /\ UNCHANGED <<delta, blinkState, calendars, userPrefs>>

\* blinkState := blinkStateForEvent(next, userPrefs.PriorityFlashSide)
blinkStateForEventCall ==
    /\ calPhase = "fetched"
    /\ blinkState' = blinkStateForEvent(events, userPrefs.PriorityFlashSide)
    /\ calPhase' = "mapped"
    /\ UNCHANGED <<chanVars, devVars, maxFailures, rpc, callVars, loopVars,
                   handlerVars, exit, pollVars>>
    /\ UNCHANGED <<delta, calendars, items, locations, userPrefs, events>>

FetchNext == fetchEventsCall \/ blinkStateForEventCall

FetchSpec == FetchInit /\ [][FetchNext]_vars

(***************************************************************************)
(* The display state of a selection of up to two events, for every pair of *)
(* bands of the mapper and every priority side, and SwapState applied to   *)
(* the result.                                                             *)
(***************************************************************************)
\* One meeting in each band of the mapper, from ten minutes ago to seventy
\* minutes ahead, and one whose start time does not parse.
BandPool ==
    { Meeting("p1", <<"Started">>, "2024-05-02T09:50:00Z", <<>>),
      Meeting("p2", <<"Starting">>, "2024-05-02T09:59:00Z", <<>>),
      Meeting("p3", <<"Imminent">>, "2024-05-02T10:01:00Z", <<>>),
      Meeting("p4", <<"Near">>, "2024-05-02T10:03:00Z", <<>>),
      Meeting("p5", <<"Soon">>, "2024-05-02T10:06:00Z", <<>>),
      Meeting("p6", <<"Later">>, "2024-05-02T10:20:00Z", <<>>),
      Meeting("p7", <<"Ahead">>, "2024-05-02T10:40:00Z", <<>>),
      Meeting("p8", <<"Far">>, "2024-05-02T11:10:00Z", <<>>),
      Meeting("p9", <<"Retro">>, "next Tuesday", <<>>) }

\* The selections nextEvent can return from a list in order of start time: at
\* most two events, the second not before the first.
BandSelections ==
    {next \in UNION {[1..n -> BandPool] : n \in 0..2} : CalendarOrdered(next)}

\* blinkStateForEvent is about to be called on a selection.
CombInit ==
    /\ BlinkerIdle
    /\ PollIdle
    /\ calPhase = "fetched"
    /\ delta = 0
    /\ blinkState = Black
    /\ calendars = <<>>
    /\ items = <<>>
    /\ locations = <<>>
    /\ events \in BandSelections
    /\ userPrefs \in {UserPrefs({}, <<>>, <<"primary">>, "notRejected", TRUE,
                                prio, <<>>) : prio \in {0, 1, 2}}

\* blinkState = SwapState(blinkState), applied to the display state and then
\* to its own result.
SwapStateCall ==
    /\ calPhase \in {"mapped", "swapped"}
    /\ blinkState' = SwapState(blinkState)
    /\ calPhase' = (IF calPhase = "mapped" THEN "swapped" ELSE "swappedTwice")
    /\ UNCHANGED <<chanVars, devVars, maxFailures, rpc, callVars, loopVars,
                   handlerVars, exit, pollVars>>
    /\ UNCHANGED <<delta, calendars, items, locations, userPrefs, events>>

CombNext == blinkStateForEventCall \/ SwapStateCall

CombSpec == CombInit /\ [][CombNext]_vars

(***************************************************************************)
(* The polling loop of main, one action per way an iteration can go.  A    *)
(* call of execute is recorded in pollSent (what it does with the request  *)
(* is Execute above); the fetch and the mapping of its result are the      *)
(* choice of an outcome: an error, or the display state of the selection.  *)
(***************************************************************************)
failureRetries == 3

MaxPolls == 5

PollInit ==
    /\ BlinkerIdle
    /\ PollIdle
    /\ calPhase = "poll"
    /\ delta = 0
    /\ blinkState = Black
    /\ calendars = <<>>
    /\ items = <<>>
    /\ locations = <<>>
    /\ userPrefs = DefaultPrefs
    /\ events = <<>>

\* A skip day, before the start time or after the end time:
\* black.execute(blinkerState); sleep; continue.
pollSleep ==
    /\ calPhase = "poll"
    /\ Len(pollLog) < MaxPolls
    /\ pollLog' = Append(pollLog, "skip")
    /\ pollSent' = Append(pollSent, <<Black>>)
    /\ UNCHANGED pollFailures
    /\ UNCHANGED <<chanVars, devVars, maxFailures, rpc, callVars, loopVars,
                   handlerVars, exit>>
    /\ UNCHANGED <<calPhase, delta, blinkState, calendars, items, locations,
                   userPrefs, events>>

\* fetchEvents returned an error.
pollFetchError ==
    /\ calPhase = "poll"
    /\ Len(pollLog) < MaxPolls
    /\ pollFailures' = pollFailures + 1
    /\ pollLog' = Append(pollLog, "fail")
    /\ pollSent' = Append(pollSent, IF pollFailures' > failureRetries
                                    THEN <<MagentaFlash>> ELSE <<>>)
    /\ UNCHANGED <<chanVars, devVars, maxFailures, rpc, callVars, loopVars,
                   handlerVars, exit>>
    /\ UNCHANGED <<calPhase, delta, blinkState, calendars, items, locations,
                   userPrefs, events>>

\* fetchEvents succeeded: failures = 0; blinkState := blinkStateForEvent(next);
\* blinkState.execute(blinkerState).
pollFetchOk ==
    /\ calPhase = "poll"
    /\ Len(pollLog) < MaxPolls
    /\ \E s \in Requests :
          /\ blinkState' = s
          /\ pollSent' = Append(pollSent, <<s>>)
    /\ pollFailures' = 0
    /\ pollLog' = Append(pollLog, "ok")
    /\ UNCHANGED <<chanVars, devVars, maxFailures, rpc, callVars, loopVars,
                   handlerVars, exit>>
    /\ UNCHANGED <<calPhase, delta, calendars, items, locations, userPrefs,
                   events>>

PollNext == pollSleep \/ pollFetchError \/ pollFetchOk

PollSpec == PollInit /\ [][PollNext]_vars

(***************************************************************************)
(* Properties.                                                             *)
(***************************************************************************)
\* The step is the pattern runner taking a request out of the channel.
RecvStep == rpc = "select" /\ newState # <<>> /\ newState' = Tail(newState)

\* The step is a device operation (close, open, write) of the pattern runner.
RunnerDeviceStep == Len(callOps') > Len(callOps)

\* C1: in every reachable state the newState channel holds at most one
\* undelivered request.
C1_MailboxAtMostOne == Len(newState) <= 1

\* Both producers wait while the buffer holds its one request.
C1_Witness == Len(newState) = 1 /\ mpc = "blocked" /\ hpc = "blocked"

\* C2 as stated (latest wins): a producer that submits while an earlier request
\* is undelivered replaces it without waiting, so no producer is ever held
\* inside the send.
C2_LatestWins == mpc # "blocked" /\ hpc # "blocked"

\* C2 amended (blocking hand-off): the buffer changes only by a send into the
\* empty buffer or by the pattern runner taking its one request; a producer
\* that finds the buffer full stays in its send, with its request, until the
\* pattern runner has taken the earlier one, which is never replaced.
C2_BlockingHandoff ==
    [][ /\ newState' # newState =>
            \/ newState = <<>> /\ Len(newState') = 1
            \/ RecvStep /\ Len(newState) = 1
        /\ (mpc = "blocked" /\ newState # <<>>) => (mpc' = "blocked" /\ mReq' = mReq)
        /\ (hpc = "blocked" /\ newState # <<>>) => hpc' = "blocked"
      ]_vars

\* The pattern runner has adopted the earlier request while the polling loop
\* still waits in its send with a different, newer one.
C2_Witness ==
    /\ mpc = "blocked"
    /\ newState = <<>>
    /\ lastEvent = "adopt"
    /\ currentState # mReq

\* C3: no task other than the pattern runner performs a device operation, and
\* no device operation of the pattern runner happens while another task's
\* device operation is in progress.
C3_OnlyRunnerTouchesDevice ==
    [][ /\ hWrites' = 0
        /\ hpc = "writing" => ~RunnerDeviceStep
      ]_vars

\* C4: receiving a request equal to the current state while failing is false
\* changes nothing but the channel: no setState call starts, and currentState,
\* failing, stateFlip and the ticker (armed or not, and its duration) are kept.
C4_EqualRequestNoOp ==
    [][ (RecvStep /\ Head(newState) = currentState /\ ~failing) =>
            UNCHANGED <<currentState, failing, stateFlip, ticker, tickDur, leds,
                        rpc, spc, sArg, callOps, device, failures>>
      ]_vars

\* An equal request was received, and dropped, while the flash timer was armed.
C4_Witness ==
    /\ lastEvent = "noop"
    /\ ticker = "armed"
    /\ rpc = "select"
    /\ ~failing

\* C5: a request that differs from the current state, or any request while
\* failing, is adopted; a solid one cancels the ticker and is written by one
\* setState call per side (primary on LED 1, then secondary on LED 2), and the
\* ticker fires only while the current state has a nonzero flash period.
C5_AdoptAndWriteSolid ==
    [][ /\ (RecvStep /\ (Head(newState) # currentState \/ failing)) =>
            /\ currentState' = Head(newState)
            /\ IF IsFlashing(Head(newState))
               THEN ticker' = "armed" /\ tickDur' = 1 /\ spc' = "idle"
               ELSE /\ ticker' = "nil"
                    /\ rpc' = "reqW1"
                    /\ spc' # "idle"
                    /\ sArg' = [color |-> Head(newState).primary, LED |-> 1,
                                Duration |-> 0]
        /\ (rpc = "reqW1" /\ rpc' # rpc) =>
            /\ rpc' = "reqW2"
            /\ spc' # "idle"
            /\ sArg' = [color |-> currentState.secondary, LED |-> 2, Duration |-> 0]
        /\ (rpc = "reqW2" /\ rpc' # rpc) => (rpc' = "select" /\ spc' = "idle")
        /\ rpc \in {"reqW1", "reqW2"} => (ticker' = "nil" /\ currentState' = currentState)
        /\ (ticker # "fired" /\ ticker' = "fired") => IsFlashing(currentState)
        /\ (ticker = "nil" /\ ticker' # "nil") => (RecvStep /\ IsFlashing(currentState'))
      ]_vars

\* A solid request was adopted while the runner was failing and a flash timer
\* had been running: the ticker is gone and the first side is being written.
C5_Witness ==
    /\ rpc = "reqW1"
    /\ failing
    /\ stateFlip
    /\ ticker = "nil"
    /\ currentState = CombineStates(Blue, Red)

\* The open and write outcomes of the current setState call, closes left out.
CallOutcomes == SelectSeq(callOps, LAMBDA o : o # "close")

\* The outcomes of the current call from its first write on.
RECURSIVE FromFirstWrite(_)
FromFirstWrite(ops) ==
    IF ops = <<>> THEN <<>>
    ELSE IF Head(ops) \in {"writeOk", "writeFail"} THEN ops
    ELSE FromFirstWrite(Tail(ops))

\* The first write of the current setState call has failed.
FirstWriteFailed ==
    /\ FromFirstWrite(CallOutcomes) # <<>>
    /\ Head(FromFirstWrite(CallOutcomes)) = "writeFail"

\* The number of write attempts of the current setState call.
CallWrites == Len(SelectSeq(callOps, LAMBDA o : o \in {"writeOk", "writeFail"}))

\* C6: up to maxFailures consecutive failed opens leave the process running
\* with failures equal to their number (zero after a successful open); one more
\* consecutive failed open ends the process.
C6_OpenCeiling ==
    /\ consecOpenFails <= maxFailures =>
        (exit # "fatalOpen" /\ failures = consecOpenFails)
    /\ consecOpenFails > maxFailures =>
        (exit = "fatalOpen" /\ consecOpenFails = maxFailures + 1)

\* With a ceiling of at least one, the open after maxFailures failed ones
\* failed too and ended the process.
C6_Witness ==
    /\ exit = "fatalOpen"
    /\ maxFailures >= 1
    /\ consecOpenFails = maxFailures + 1

\* C7 as stated: once the first write of a setState call has failed, the call
\* ends with the process running, after exactly two write attempts, and with
\* the failure counter as it was.
C7_WriteFailureRetriedOnce ==
    (FirstWriteFailed /\ (spc = "ret" \/ exit = "fatalOpen")) =>
        (exit # "fatalOpen" /\ CallWrites = 2 /\ failures = 0)

\* The state at the end of a setState call whose first write failed.
C7_AtReturn ==
    /\ (FirstWriteFailed /\ spc = "ret") =>
        \/ /\ FromFirstWrite(CallOutcomes) \in
                {<<"writeFail", "openOk", "writeOk">>,
                 <<"writeFail", "openOk", "writeFail">>}
           /\ sErr = (CallOutcomes[Len(CallOutcomes)] = "writeFail")
           /\ failures = 0
        \/ /\ FromFirstWrite(CallOutcomes) = <<"writeFail", "openFail">>
           /\ sErr
           /\ failures = 1
    /\ exit = "fatalOpen" =>
        (callOps # <<>> /\ callOps[Len(callOps)] = "openFail")
    /\ (exit = "fatalOpen" /\ FirstWriteFailed) => maxFailures = 0

\* C7 amended: a failed write changes neither the failure counter nor the
\* process; after a failed first write the handle is reopened once, and the
\* write is retried exactly once when that open succeeded (the retry's error is
\* returned), and not at all when it failed (the error is returned, and the
\* failed open is fatal only with a ceiling of zero).
C7_WriteFailureHandling ==
    [][ /\ C7_AtReturn'
        /\ (RunnerDeviceStep /\ callOps'[Len(callOps')] = "writeFail") =>
            (failures' = failures /\ exit' = exit)
      ]_vars

\* A call has returned the error of a failed retry, the process running.
C7_Witness ==
    /\ spc = "ret"
    /\ sErr
    /\ exit = "running"
    /\ FromFirstWrite(CallOutcomes) = <<"writeFail", "openOk", "writeFail">>

\* C8: whenever setState returns without an error the failure counter is zero.
C8_SuccessResetsCounter == (spc = "ret" /\ ~sErr) => failures = 0

\* A call that began with a reopen returns the success of its retried write.
C8_Witness ==
    /\ spc = "ret"
    /\ ~sErr
    /\ CallOutcomes = <<"openOk", "writeFail", "openOk", "writeOk">>

\* C9 as stated: every exit on a termination signal comes after exactly one
\* direct write attempt of the handler.
C9_AlwaysOneDirectWrite == exit = "signal" => hWrites = 1

\* C9 amended: the handler sends Black and attempts its direct write, once,
\* exactly when the failure counter it read was zero; with a nonzero counter
\* it exits without sending and without writing.
C9_WriteOnlyWhenCounterZero ==
    /\ hWrites <= 1
    /\ hWrites = 1 => (hSent /\ hSaw = 0)
    /\ hSent => hSaw = 0
    /\ exit = "signal" => ((hWrites = 1) <=> (hSaw = 0))
    /\ exit = "signal" => (hSent <=> (hSaw = 0))

\* The process has left on a signal taken with a nonzero failure counter.
C9_Witness ==
    /\ exit = "signal"
    /\ hSaw > 0
    /\ hWrites = 0
    /\ ~hSent

\* C10: when the process exits on a termination signal and no device operation
\* has ever failed, the last color applied to each LED is Off.
C10_QuitTurnsLightOff ==
    (exit = "signal" /\ ~everFailed) => leds = <<OffState, OffState>>

\* The bands of the mapper as intervals of minutes, each closed at its lower and
\* open at its upper end; an absent end is unbounded.
Band(hasLo, lo, hasHi, hi, state) ==
    [hasLo |-> hasLo, lo |-> lo, hasHi |-> hasHi, hi |-> hi, state |-> state]

DeltaBands ==
    << Band(FALSE, 0, TRUE, -1, Blue),
       Band(TRUE, -1, TRUE, 0, BlueFlash),
       Band(TRUE, 0, TRUE, 2, FastRedFlash),
       Band(TRUE, 2, TRUE, 5, RedFlash),
       Band(TRUE, 5, TRUE, 10, Red),
       Band(TRUE, 10, TRUE, 30, Yellow),
       Band(TRUE, 30, TRUE, 60, Green),
       Band(TRUE, 60, FALSE, 0, Black) >>

InBand(d, b) ==
    /\ b.hasLo => d >= b.lo * SecondsPerMinute
    /\ b.hasHi => d < b.hi * SecondsPerMinute

\* C11: every delta lies in exactly one of the eight bands, and the mapper
\* returns that band's state: Blue below -1, the Blue/Red alternating flash on
\* [-1, 0), FastRedFlash on [0, 2), RedFlash on [2, 5), Red on [5, 10), Yellow
\* on [10, 30), Green on [30, 60) and Off from 60 on.
C11_BandsPartition ==
    calPhase = "mapped" =>
        /\ Cardinality({i \in DOMAIN DeltaBands : InBand(delta, DeltaBands[i])}) = 1
        /\ \A i \in DOMAIN DeltaBands :
              InBand(delta, DeltaBands[i]) => blinkState = DeltaBands[i].state

\* The boundary 0 has been mapped, to the band that starts at it.
C11_Witness == calPhase = "mapped" /\ delta = 0 /\ blinkState = FastRedFlash

\* The statuses a response policy admits, as the preference is documented.
PolicyAdmits(policy, status) ==
    \/ policy = "all"
    \/ policy = "accepted" /\ status = "accepted"
    \/ policy = "notRejected" /\ status # "declined"

\* The event is not all-day, its title is neither excluded nor begins with an
\* excluded prefix, and the user's own response, if recorded, fits the policy.
Admissible(e, prefs) ==
    /\ e.Start.DateTime # ""
    /\ e.Summary \notin prefs.Excludes
    /\ \A i \in DOMAIN prefs.ExcludePrefixes :
           ~HasPrefix(e.Summary, prefs.ExcludePrefixes[i])
    /\ \A i \in DOMAIN e.Attendees :
           e.Attendees[i].Self =>
               PolicyAdmits(prefs.ResponseState, e.Attendees[i].ResponseStatus)

AdmissibleItems == {i \in DOMAIN items : Admissible(items[i], userPrefs)}

\* The first k admissible items, in list order.
FirstAdmissible(k) ==
    [n \in 1..k |->
        items[CHOOSE i \in AdmissibleItems :
                  Cardinality({j \in AdmissibleItems : j < i}) = n - 1]]

\* The number of events a full selection holds.
SelectionLimit == IF userPrefs.MultiEvent THEN 2 ELSE 1

ExpectedCount ==
    IF Cardinality(AdmissibleItems) < SelectionLimit
    THEN Cardinality(AdmissibleItems) ELSE SelectionLimit

\* A filter is configured and no active work site equals any of its entries.
GateSuppresses ==
    /\ Len(userPrefs.WorkingLocations) > 0
    /\ \A i \in DOMAIN userPrefs.WorkingLocations :
           \A j \in DOMAIN locations : userPrefs.WorkingLocations[i] # locations[j]

ItemIds == [i \in DOMAIN items |-> items[i].Id]
EventIds == [i \in DOMAIN events |-> events[i].Id]

\* C12: where the working-location gate lets the selection through, every
\* selected event is admissible (it has a start time, its title is not
\* excluded by name or prefix, the user's response fits the policy or is
\* absent), the first selected event is the first admissible item, nothing is
\* selected only when no item is admissible, and the items Lunch (excluded),
\* Standup (accepted), Review (declined) under notRejected without multiEvent
\* select exactly Standup.
C12_Admission ==
    (calPhase = "selected" /\ ~GateSuppresses) =>
        /\ \A n \in DOMAIN events : Admissible(events[n], userPrefs)
        /\ events = <<>> <=> AdmissibleItems = {}
        /\ events # <<>> => events[1] = FirstAdmissible(1)[1]
        /\ ( /\ ItemIds = <<"a", "b", "c">>
             /\ userPrefs.ResponseState = "notRejected"
             /\ ~userPrefs.MultiEvent ) => EventIds = <<"b">>

\* The example of the claim has been evaluated.
C12_Witness ==
    /\ calPhase = "selected"
    /\ ~GateSuppresses
    /\ ItemIds = <<"a", "b", "c">>
    /\ userPrefs.ResponseState = "notRejected"
    /\ ~userPrefs.MultiEvent
    /\ EventIds = <<"b">>

\* C13 as stated: for every item list and all preferences the selection is the
\* first admissible items in list order, up to two with multiEvent and one
\* without, and exactly the first two when multiEvent is set and two are
\* admissible.
C13_FirstAdmissibleAlways ==
    calPhase = "selected" => events = FirstAdmissible(ExpectedCount)

\* C13, amended: the selection is the first admissible items in list order, up
\* to two with multiEvent and one without (exactly the first two when
\* multiEvent is set and two are admissible), unless the working-location gate
\* suppresses it, and then it is empty.
C13_FirstAdmissibleUnlessGated ==
    calPhase = "selected" =>
        /\ Len(events) <= SelectionLimit
        /\ ~GateSuppresses => events = FirstAdmissible(ExpectedCount)
        /\ GateSuppresses => events = <<>>

\* With multiEvent, a full list whose first item is inadmissible yields the
\* first two admissible items behind it.
C13_Witness ==
    /\ calPhase = "selected"
    /\ userPrefs.MultiEvent
    /\ ~GateSuppresses
    /\ Cardinality(AdmissibleItems) >= 2
    /\ 1 \notin AdmissibleItems
    /\ Len(items) = MaxItems
    /\ Len(events) = 2

\* C14: with a non-empty filter none of whose entries equals an active work
\* site (no active site at all included) the selection is empty whatever the
\* items are; with an empty filter an admissible item is always selected.
C14_LocationGate ==
    calPhase = "selected" =>
        /\ GateSuppresses => events = <<>>
        /\ Len(userPrefs.WorkingLocations) = 0 =>
               (AdmissibleItems # {} => events # <<>>)

\* A filter is set, no calendar reports a location, and an admissible item is
\* suppressed.
C14_Witness ==
    /\ calPhase = "selected"
    /\ Len(userPrefs.WorkingLocations) > 0
    /\ locations = <<>>
    /\ AdmissibleItems # {}
    /\ events = <<>>

\* C16 as stated: a filter entry matches an active site of its type when the
\* entry is a Home entry or carries no name, so the gate then passes and an
\* admissible item is selected.
C16_UnsetNameMatchesType ==
    ( /\ calPhase = "selected"
      /\ AdmissibleItems # {}
      /\ \E i \in DOMAIN userPrefs.WorkingLocations :
             \E j \in DOMAIN locations :
                 /\ userPrefs.WorkingLocations[i].SiteType = locations[j].SiteType
                 /\ \/ userPrefs.WorkingLocations[i].SiteType = WorkSiteHome
                    \/ userPrefs.WorkingLocations[i].Name = <<>> )
    => events # <<>>

\* fetchEvents has returned a selection.
Fetched == calPhase \in {"fetched", "mapped"}

\* The working-location events of calendar c, by index.
LocationEvents(c) ==
    {i \in DOMAIN calendars[c] :
        /\ calendars[c][i].EventType = "workingLocation"
        /\ ~ParseTime(calendars[c][i].Created).err}

CreatedAt(c, i) == ParseTime(calendars[c][i].Created).t

IsAllDay(e) == e.Start.DateTime = ""

\* The work site a workingLocation event stands for.
SiteOfEvent(e) ==
    CASE e.Location.Type = <<"officeLocation">> ->
             WorkSite(WorkSiteOffice, e.Location.Label)
      [] e.Location.Type = <<"customLocation">> ->
             WorkSite(WorkSiteCustom, e.Location.Label)
      [] OTHER -> WorkSite(WorkSiteHome, <<>>)

\* The active work site of calendar c: locations holds one per calendar that
\* has working-location events, in poll order.
ActiveSite(c) ==
    locations[Cardinality({d \in 1..c : LocationEvents(d) # {}})]

\* C15 as stated: in a calendar with both an all-day working location and an
\* override for part of the day, the active site is that of an override,
\* whatever the creation times.
C15_OverrideAlwaysWins ==
    Fetched =>
        \A c \in DOMAIN calendars :
            ( /\ \E i \in LocationEvents(c) : IsAllDay(calendars[c][i])
              /\ \E j \in LocationEvents(c) : ~IsAllDay(calendars[c][j]) )
            => \E j \in LocationEvents(c) :
                   /\ ~IsAllDay(calendars[c][j])
                   /\ ActiveSite(c) = SiteOfEvent(calendars[c][j])

\* C15, amended: the active site of a calendar is that of its most recently
\* created working-location event, all-day or not, the later one in list
\* order among events created at the same time; a calendar without
\* working-location events contributes no site.
C15_MostRecentlyCreatedWins ==
    Fetched =>
        /\ Len(locations) =
               Cardinality({c \in DOMAIN calendars : LocationEvents(c) # {}})
        /\ \A c \in DOMAIN calendars :
               \A i \in LocationEvents(c) :
                   (\A j \in LocationEvents(c) :
                        \/ CreatedAt(c, j) < CreatedAt(c, i)
                        \/ CreatedAt(c, j) = CreatedAt(c, i) /\ j <= i)
                   => ActiveSite(c) = SiteOfEvent(calendars[c][i])

\* An all-day working location created after the override of the same
\* calendar is the active site.
C15_Witness ==
    /\ Fetched
    /\ \E c \in DOMAIN calendars :
           \E i, j \in LocationEvents(c) :
               /\ IsAllDay(calendars[c][i])
               /\ ~IsAllDay(calendars[c][j])
               /\ CreatedAt(c, i) > CreatedAt(c, j)
               /\ ActiveSite(c) = SiteOfEvent(calendars[c][i])
               /\ ActiveSite(c) # SiteOfEvent(calendars[c][j])

\* Calendar c holds an out-of-office event that begins at or before now and
\* ends at or after the end of the lookahead.
CoveringOutOfOffice(c) ==
    \E i \in DOMAIN calendars[c] :
        /\ calendars[c][i].EventType = "outOfOffice"
        /\ ~ParseTime(calendars[c][i].Start.DateTime).err
        /\ ~ParseTime(calendars[c][i].End.DateTime).err
        /\ ParseTime(calendars[c][i].Start.DateTime).t <= Now
        /\ ParseTime(calendars[c][i].End.DateTime).t >= Now + LookaheadMinutes

\* C17 as stated: no event of a calendar with a covering out-of-office event
\* is selected.
C17_OutOfOfficeExcludesCalendar ==
    Fetched =>
        \A c \in DOMAIN calendars :
            CoveringOutOfOffice(c) =>
                \A n \in DOMAIN events :
                    \A i \in DOMAIN calendars[c] :
                        events[n].Id # calendars[c][i].Id

\* C17, amended: a covering out-of-office event gates nothing: every timed
\* event of its calendar, the out-of-office event included, is in the list
\* handed to admission, and the selection is made from that list by the
\* admission rules and the working-location gate alone.
C17_OutOfOfficeNoGate ==
    Fetched =>
        /\ \A c \in DOMAIN calendars :
               CoveringOutOfOffice(c) =>
                   \A i \in DOMAIN calendars[c] :
                       ~IsAllDay(calendars[c][i]) =>
                           \E n \in DOMAIN items :
                               items[n].Id = calendars[c][i].Id
        /\ (\E c \in DOMAIN calendars : CoveringOutOfOffice(c)) =>
               events = (IF GateSuppresses THEN <<>>
                         ELSE FirstAdmissible(ExpectedCount))

\* The only calendar holds a covering out-of-office event, and both it and a
\* meeting of that calendar are selected.
C17_Witness ==
    /\ Fetched
    /\ Len(calendars) = 1
    /\ CoveringOutOfOffice(1)
    /\ \E n \in DOMAIN events : events[n].EventType = "outOfOffice"
    /\ \E n \in DOMAIN events : events[n].EventType = "default"

\* The events of the calendars from calendar c on, in poll order.
RECURSIVE PooledFrom(_)
PooledFrom(c) ==
    IF c > Len(calendars) THEN <<>> ELSE calendars[c] \o PooledFrom(c + 1)

Pooled == PooledFrom(1)

\* The index in the pooled list of the first event with this id.
FirstOccurrence(id) ==
    CHOOSE i \in DOMAIN Pooled :
        /\ Pooled[i].Id = id
        /\ \A j \in DOMAIN Pooled : Pooled[j].Id = id => i <= j

StartOf(e) == ParseTime(e.Start.DateTime)

\* C18: with more than one calendar polled, the list handed to admission
\* holds each id once, as the first event of that id in pooled order, holds
\* every timed event's id and no all-day event, and is in ascending order of
\* start time with events of equal start time in their pooled order.
C18_Merge ==
    (Fetched /\ Len(userPrefs.Calendars) > 1) =>
        /\ \A m, n \in DOMAIN items : m # n => items[m].Id # items[n].Id
        /\ \A n \in DOMAIN items :
               /\ ~IsAllDay(items[n])
               /\ items[n] = Pooled[FirstOccurrence(items[n].Id)]
        /\ \A i \in DOMAIN Pooled :
               ~IsAllDay(Pooled[FirstOccurrence(Pooled[i].Id)]) =>
                   \E n \in DOMAIN items : items[n].Id = Pooled[i].Id
        /\ \A m, n \in DOMAIN items :
               m < n =>
                   /\ ~StartOf(items[m]).err
                   /\ ~StartOf(items[n]).err
                   /\ StartOf(items[m]).t <= StartOf(items[n]).t
                   /\ StartOf(items[m]).t = StartOf(items[n]).t =>
                          FirstOccurrence(items[m].Id)
                              < FirstOccurrence(items[n].Id)

\* Two calendars hold differing copies of one event, and the merged list puts
\* an event of the second calendar before one of the first.
C18_Witness ==
    /\ Fetched
    /\ Len(calendars) = 2
    /\ \E i, j \in DOMAIN Pooled :
           i < j /\ Pooled[i].Id = Pooled[j].Id /\ Pooled[i] # Pooled[j]
    /\ \E m, n \in DOMAIN items :
           m < n /\ FirstOccurrence(items[m].Id) > FirstOccurrence(items[n].Id)

\* C19 as stated: no workingLocation or outOfOffice event is ever in the
\* selection.
C19_NoPseudoEventSelected ==
    Fetched =>
        \A n \in DOMAIN events :
            events[n].EventType \notin {"workingLocation", "outOfOffice"}

\* The ids of the events that survive the filter of the merge.
SurvivorIds ==
    {Pooled[i].Id : i \in {j \in DOMAIN Pooled :
                              ~IsAllDay(Pooled[FirstOccurrence(Pooled[j].Id)])}}

\* C20 as stated: no display state is produced for a selection that holds an
\* event whose start time does not parse, and no such event leaves the merge.
C20_MalformedAlwaysFatal ==
    /\ calPhase = "mapped" =>
           \A n \in DOMAIN events : ~StartOf(events[n]).err
    /\ (Fetched /\ Len(userPrefs.Calendars) > 1) =>
           \A n \in DOMAIN items : ~StartOf(items[n]).err

\* C20, amended: the process ends on a start time that does not parse only in
\* the sort of the merge, that is with more than one calendar and two or more
\* surviving events of which one does not parse.  Otherwise the event goes on
\* to admission, and the mapper stops at it and returns the state built so
\* far: Off when it is the first selected event, the state of the first event
\* when it is the second.
C20_MalformedFatalOnlyInSort ==
    /\ calPhase # "input" =>
           ( calPhase = "fatal" <=>
               /\ Len(userPrefs.Calendars) > 1
               /\ Cardinality(SurvivorIds) >= 2
               /\ \E id \in SurvivorIds :
                      StartOf(Pooled[FirstOccurrence(id)]).err )
    /\ exit = "fatalTime" <=> calPhase = "fatal"
    /\ calPhase = "mapped" =>
           /\ (events # <<>> /\ StartOf(events[1]).err) => blinkState = Black
           /\ ( /\ Len(events) = 2
                /\ ~StartOf(events[1]).err
                /\ StartOf(events[2]).err ) =>
                  blinkState =
                      blinkStateForDelta((StartOf(events[1]).t - Now)
                                             * SecondsPerMinute)

\* Two calendars are polled, the one surviving event has a start time that
\* does not parse, it is selected, and the display state is Off.
C20_Witness ==
    /\ calPhase = "mapped"
    /\ Len(calendars) = 2
    /\ Len(events) = 1
    /\ StartOf(events[1]).err
    /\ blinkState = Black
    /\ exit = "running"

\* The single-event state of the n-th selected event, by the table of bands.
BandState(n) ==
    LET d == (StartOf(events[n]).t - Now) * SecondsPerMinute
        i == CHOOSE k \in DOMAIN DeltaBands : InBand(d, DeltaBands[k])
    IN DeltaBands[i].state

\* Two events with well-formed start times are selected and have been mapped.
TwoMapped ==
    /\ calPhase = "mapped"
    /\ Len(events) = 2
    /\ ~StartOf(events[1]).err
    /\ ~StartOf(events[2]).err

\* The two sides of a state: color and flash period of each.
Sides(state) ==
    <<state.primary, state.primaryFlash, state.secondary, state.secondaryFlash>>

SwappedSides(state) ==
    <<state.secondary, state.secondaryFlash, state.primary, state.primaryFlash>>

\* The last part of the state's name says that it was swapped.
NamedSwapped(state) == state.Name[Len(state.Name)] = " swapped"

\* C21: when the second of two selected events does not map to Off, the
\* display state has alternate = false and its sides are the first event's
\* primary color and flash period and the second event's primary color and
\* flash period, on sides 1 and 2 in that order unless the priority side swapped
\* them; every state that SwapState returns has alternate = false.
C21_CombinedSides ==
    /\ (TwoMapped /\ BandState(2) # Black) =>
           LET combined == << BandState(1).primary, BandState(1).primaryFlash,
                              BandState(2).primary, BandState(2).primaryFlash >>
           IN /\ blinkState.alternate = FALSE
              /\ ~NamedSwapped(blinkState) => Sides(blinkState) = combined
              /\ NamedSwapped(blinkState) => SwappedSides(blinkState) = combined
    /\ calPhase \in {"swapped", "swappedTwice"} => blinkState.alternate = FALSE

\* A flashing first event and a flashing second event have been combined: the
\* second side took the second event's primary color and period.
C21_Witness ==
    /\ TwoMapped
    /\ BandState(1) = BlueFlash
    /\ BandState(2) = RedFlash
    /\ userPrefs.PriorityFlashSide = 0
    /\ Sides(blinkState) = <<BlueColor, 500, RedColor, 500>>
    /\ blinkState.alternate = FALSE

\* C22 as stated: when the second of two selected events maps to Off, the
\* display state is the first event's single-event state, whatever the
\* priority side.
C22_SecondOffIsIdentity ==
    (TwoMapped /\ BandState(2) = Black) => blinkState = BandState(1)

\* Exactly one side of the combination of the two selected events flashes, and
\* it is not the priority side.
PrioritySideIdle ==
    LET first == BandState(1).primaryFlash
        second == BandState(2).primaryFlash
    IN \/ userPrefs.PriorityFlashSide = 1 /\ first = 0 /\ second > 0
       \/ userPrefs.PriorityFlashSide = 2 /\ first > 0 /\ second = 0

\* C23: for two combined events the sides are swapped exactly when a priority
\* side is set, one side alone flashes and it is not the priority side; the
\* priority side then flashes with the color that was flashing.  Without a
\* priority side, or with both sides or neither flashing, the combination is
\* left as it is.
C23_PrioritySwap ==
    (TwoMapped /\ BandState(2) # Black) =>
        LET first == BandState(1)
            second == BandState(2)
        IN /\ PrioritySideIdle =>
                  /\ Sides(blinkState) =
                         << second.primary, second.primaryFlash,
                            first.primary, first.primaryFlash >>
                  /\ userPrefs.PriorityFlashSide = 1 =>
                         /\ blinkState.primaryFlash > 0
                         /\ blinkState.primary = second.primary
                  /\ userPrefs.PriorityFlashSide = 2 =>
                         /\ blinkState.secondaryFlash > 0
                         /\ blinkState.secondary = first.primary
           /\ ~PrioritySideIdle =>
                  Sides(blinkState) =
                      << first.primary, first.primaryFlash,
                         second.primary, second.primaryFlash >>

\* With priority side 1, a meeting in progress and one about to start have
\* been swapped: side 1 flashes red.
C23_Witness ==
    /\ TwoMapped
    /\ userPrefs.PriorityFlashSide = 1
    /\ BandState(1) = Blue
    /\ BandState(2) = RedFlash
    /\ Sides(blinkState) = <<RedColor, 500, BlueColor, 0>>

\* The display state of the selection, before SwapState was applied to it.
Unswapped == blinkStateForEvent(events, userPrefs.PriorityFlashSide)

\* The selection is of two events that were combined.
CombinedSelection ==
    /\ Len(events) = 2
    /\ ~StartOf(events[1]).err
    /\ ~StartOf(events[2]).err
    /\ BandState(2) # Black

\* C24 as stated: SwapState applied twice to a combined state returns a state
\* equal to it in every field, the name included.
C24_SwapInvolution ==
    (calPhase = "swappedTwice" /\ CombinedSelection) => blinkState = Unswapped

\* C24, amended: SwapState exchanges the colors and the flash periods of the
\* two sides and appends " swapped" to the name, so applied twice to a combined
\* state it restores both sides and alternate = false but not the name, and
\* the result is not equal to the state it started from.
C24_SwapRestoresSidesOnly ==
    CombinedSelection =>
        /\ calPhase = "swapped" =>
               /\ Sides(blinkState) = SwappedSides(Unswapped)
               /\ blinkState.Name = Unswapped.Name \o <<" swapped">>
        /\ calPhase = "swappedTwice" =>
               /\ Sides(blinkState) = Sides(Unswapped)
               /\ blinkState.alternate = Unswapped.alternate
               /\ blinkState.Name = Unswapped.Name \o <<" swapped", " swapped">>
               /\ blinkState # Unswapped

\* SwapState has been applied twice to the combination of a meeting in progress
\* and a flashing one.
C24_Witness ==
    /\ calPhase = "swappedTwice"
    /\ CombinedSelection
    /\ userPrefs.PriorityFlashSide = 0
    /\ Sides(blinkState) = <<BlueColor, 0, RedColor, 500>>
    /\ blinkState.Name = <<"Blue", "/", "Red Flash", " swapped", " swapped">>

(***************************************************************************)
(* The polling loop's failure count.                                       *)
(***************************************************************************)
RECURSIVE FailedInARow(_)
\* The number of fetches that have failed since the last one that succeeded.
FailedInARow(log) ==
    IF log = <<>> \/ log[Len(log)] = "ok" THEN 0
    ELSE FailedInARow(SubSeq(log, 1, Len(log) - 1))
         + (IF log[Len(log)] = "fail" THEN 1 ELSE 0)

RECURSIVE MagentaSinceSuccess(_, _)
\* Some poll since the last successful fetch has requested MagentaFlash.
MagentaSinceSuccess(log, sent) ==
    IF log = <<>> \/ log[Len(log)] = "ok" THEN FALSE
    ELSE \/ sent[Len(log)] = <<MagentaFlash>>
         \/ MagentaSinceSuccess(SubSeq(log, 1, Len(log) - 1), sent)

\* C25: once the fetch has failed 3 times in a row the polling loop has
\* requested the flashing-magenta state; a failed poll with fewer consecutive
\* failures sends no request; a successful fetch resets the count to zero.
C25_StaleAfterThreeFailures ==
    /\ FailedInARow(pollLog) >= 3 => MagentaSinceSuccess(pollLog, pollSent)
    /\ \A i \in 1..Len(pollLog) :
          pollLog[i] = "fail" /\ FailedInARow(SubSeq(pollLog, 1, i)) < 3
             => pollSent[i] = <<>>
    /\ pollLog # <<>> /\ pollLog[Len(pollLog)] = "ok" => pollFailures = 0

(***************************************************************************)
(* The timer of the pattern runner.                                        *)
(***************************************************************************)
\* One of the state's flash periods is nonzero.
HasFlashPeriod(cs) == cs.primaryFlash # 0 \/ cs.secondaryFlash # 0

\* The step adopts a request that has a nonzero flash period.
AdoptFlashingStep ==
    /\ RecvStep
    /\ currentState' = Head(newState)
    /\ lastEvent' = "adopt"
    /\ HasFlashPeriod(Head(newState))

\* The step is the timer firing: state1 and state2 are computed and state1 is
\* handed to setState.
TickStep == rpc = "select" /\ rpc' = "tickW1"

\* The step ends the timer branch: both writes have returned.
TickDoneStep == rpc = "tickW2" /\ rpc' = "select"

\* The timer branch hands setState the pair it computed: its first color for
\* LED 1, then its second color for LED 2.
TickWritesPair ==
    /\ TickStep => sArg'.color = tickPair'[1] /\ sArg'.LED = 1
    /\ rpc = "tickW1" /\ rpc' = "tickW2" =>
          sArg'.color = tickPair[2] /\ sArg'.LED = 2

\* C26: adopting a state with a nonzero flash period starts no device write
\* in that step and arms the timer; every completed tick re-arms the timer
\* with the state still current, so that whenever the pattern runner waits
\* in its select with such a state the timer is armed; and the timer is set
\* exactly when the current state has a nonzero flash period.
C26_FlashingArmsTimer ==
    /\ [][AdoptFlashingStep =>
             /\ ticker' = "armed"
             /\ rpc' = "select"
             /\ UNCHANGED <<callVars, devVars>>]_vars
    /\ [][TickDoneStep => ticker' = "armed" /\ currentState' = currentState]_vars
    /\ [](rpc = "select" => (ticker = "armed" <=> HasFlashPeriod(currentState)))
    /\ [](ticker # "nil" <=> HasFlashPeriod(currentState))

\* A state whose second side alone flashes has been adopted and has ticked;
\* the timer is armed again.
C26_Witness ==
    /\ rpc = "select"
    /\ currentState = CombineStates(Blue, RedFlash)
    /\ lastEvent = "tick"
    /\ tickPair # <<>>
    /\ ticker = "armed"

\* C27: the first tick after a new flashing state was adopted writes the
\* state's primary color to side 1 and its secondary color to side 2.
C27_FirstTickInitialPhase ==
    [][TickStep /\ tickPair = <<>> =>
          tickPair' = <<currentState.primary, currentState.secondary>>]_vars

SwapPair(pair) == <<pair[2], pair[1]>>

\* C28: while a state with alternate = true stays current, every tick writes
\* (primary, secondary) or (secondary, primary), and the pair of a tick is the
\* swap of the pair of the tick before it.
C28_AlternateSwapsEachTick ==
    [][ /\ TickWritesPair
        /\ TickStep /\ currentState.alternate =>
              /\ tickPair' \in {<<currentState.primary, currentState.secondary>>,
                                <<currentState.secondary, currentState.primary>>}
              /\ tickPair # <<>> => tickPair' = SwapPair(tickPair)
      ]_vars

\* Red Flash has ticked at least twice without a change of state: its last
\* tick wrote (Off, Red) and the one before it (Red, Off).
C28_Witness ==
    /\ rpc = "select"
    /\ currentState = RedFlash
    /\ lastEvent = "tick"
    /\ tickPair = <<OffState, RedColor>>
    /\ ~stateFlip

\* What a flashing side shows after it showed prev: its own color or Off, in
\* turn.
Toggle(prev, own) == IF prev = own THEN OffState ELSE own

\* C29: while a state with alternate = false stays current, every tick writes
\* a side whose flash period is zero with its own color, and a side whose flash
\* period is nonzero with its own color and Off in turn.
C29_IndependentToggle ==
    [][TickStep /\ ~currentState.alternate =>
          /\ sArg'.color = tickPair'[1]
          /\ currentState.primaryFlash = 0 => tickPair'[1] = currentState.primary
          /\ currentState.secondaryFlash = 0 => tickPair'[2] = currentState.secondary
          /\ currentState.primaryFlash # 0 =>
                /\ tickPair'[1] \in {currentState.primary, OffState}
                /\ tickPair # <<>> =>
                      tickPair'[1] = Toggle(tickPair[1], currentState.primary)
          /\ currentState.secondaryFlash # 0 =>
                /\ tickPair'[2] \in {currentState.secondary, OffState}
                /\ tickPair # <<>> =>
                      tickPair'[2] = Toggle(tickPair[2], currentState.secondary)
      ]_vars

\* Blue/Red Flash has ticked in its flipped phase: side 1, whose period is
\* zero, was written Blue and side 2 was written Off.
C29_Witness ==
    /\ rpc = "select"
    /\ currentState = CombineStates(Blue, RedFlash)
    /\ lastEvent = "tick"
    /\ tickPair = <<BlueColor, OffState>>

\* The predefined constants, and the states one and two applications of
\* CombineStates and SwapState make of them.
PredefinedStates ==
    {Black, Green, Yellow, Red, RedFlash, FastRedFlash, BlueFlash, Blue,
     MagentaFlash}

Derive(S) ==
    S \cup {SwapState(a) : a \in S}
      \cup {CombineStates(a, b) : a \in S, b \in S}

DerivedStates == Derive(Derive(PredefinedStates))

\* The interval the claim names: the primary flash period unless it is zero,
\* and then the secondary one.
RearmInterval(cs) ==
    IF cs.primaryFlash # 0 THEN cs.primaryFlash ELSE cs.secondaryFlash

\* C30: every completed tick re-arms the timer with the current state's
\* primary flash period if that is nonzero and otherwise with its secondary
\* flash period, and flips the phase; the interval is positive, for the states
\* that tick here and for every flashing state made of the constants by
\* CombineStates and SwapState.
C30_RearmInterval ==
    /\ \A cs \in DerivedStates : \A flip \in BOOLEAN :
          HasFlashPeriod(cs) =>
             NextTick(cs, flip) = RearmInterval(cs) /\ NextTick(cs, flip) > 0
    /\ [][TickDoneStep =>
             /\ ticker' = "armed"
             /\ tickDur' = RearmInterval(currentState)
             /\ tickDur' > 0
             /\ stateFlip' = ~stateFlip]_vars

\* A tick of a state whose primary period is zero has re-armed the timer with
\* the secondary period.
C30_Witness ==
    /\ rpc = "select"
    /\ lastEvent = "tick"
    /\ currentState.primaryFlash = 0
    /\ tickDur = currentState.secondaryFlash
    /\ tickDur > 0
    /\ stateFlip

(***************************************************************************)
(* The failing flag of the pattern runner.                                 *)
(***************************************************************************)
\* The setState call whose operations are ops has returned an error: its last
\* device operation failed.
CallFailed(ops) ==
    ops # <<>> /\ ops[Len(ops)] \in {"openFail", "writeFail"}

\* The startup call returns and the loop is entered.
StartReturnStep == rpc = "initW" /\ rpc' = "select"

\* The first of the two calls of a solid request or of a tick returns.
FirstReturnStep == rpc \in {"reqW1", "tickW1"} /\ rpc' \in {"reqW2", "tickW2"}

\* The second of the two calls of a solid request or of a tick returns.
SecondReturnStep == rpc \in {"reqW2", "tickW2"} /\ rpc' = "select"

\* C31: failing reflects the most recent write attempt of the pattern runner:
\* after the startup write it is true iff that call failed; after the two
\* writes of a solid request or of a tick it is true iff one of the two calls
\* failed (so a step whose writes all succeed sets it back to false); it
\* changes in no other step; and while it is true a request equal to the
\* current state is applied again.
C31_FailingReflectsLastWrite ==
    /\ [][StartReturnStep => (failing' <=> CallFailed(callOps))]_vars
    /\ [][FirstReturnStep => (err1' <=> CallFailed(callOps))]_vars
    /\ [][SecondReturnStep => (failing' <=> (err1 \/ CallFailed(callOps)))]_vars
    /\ [][failing' # failing => StartReturnStep \/ SecondReturnStep]_vars
    /\ [][RecvStep /\ failing /\ Head(newState) = currentState =>
             /\ lastEvent' = "adopt"
             /\ IF HasFlashPeriod(currentState)
                THEN ticker' = "armed"
                ELSE rpc' = "reqW1" /\ sArg' = SolidState1(currentState)]_vars

\* A solid request whose first write failed and whose second write succeeded
\* has left failing true, and an equal request waits in the channel.
C31_Witness ==
    /\ rpc = "select"
    /\ failing
    /\ lastEvent = "adopt"
    /\ ~sErr
    /\ newState = <<currentState>>

\* C32: the pattern runner starts with currentState = Black, no timer, and one
\* setState call, of Black's primary color with no LED and no duration; until
\* that call has returned failing is false, and when it returns the loop is
\* entered with failing true iff the call failed, still Black and no timer.
C32_Startup ==
    /\ [](rpc \in {"init", "initW"} =>
             currentState = Black /\ ticker = "nil" /\ ~failing /\ ~stateFlip)
    /\ [][rpc = "init" /\ rpc' # "init" =>
             /\ rpc' = "initW"
             /\ sArg' = BlinkState(OffState, 0, 0)
             /\ callOps' = <<>>]_vars
    /\ [][rpc = "initW" => sArg' = sArg]_vars
    /\ [][rpc = "initW" /\ rpc' # "initW" =>
             /\ rpc' = "select"
             /\ failing' <=> CallFailed(callOps)
             /\ currentState' = Black
             /\ ticker' = "nil"
             /\ spc' = "idle"]_vars
    /\ [][rpc' \in {"init", "initW"} => rpc \in {"init", "initW"}]_vars

\* The startup call has failed and the loop is entered with failing set.
C32_Witness ==
    /\ rpc = "select"
    /\ lastEvent = "start"
    /\ failing
    /\ currentState = Black
    /\ ticker = "nil"

(***************************************************************************)
(* The device controller: one call of setState.                            *)
(***************************************************************************)
RECURSIVE CountOps(_, _)
\* How many operations of the call are of one of the kinds.
CountOps(ops, kinds) ==
    IF ops = <<>> THEN 0
    ELSE CountOps(Tail(ops), kinds) + (IF Head(ops) \in kinds THEN 1 ELSE 0)

\* The reinitializations of the call: each one opens the device once.
Reinits(ops) == CountOps(ops, {"openOk", "openFail"})

\* The write attempts of the call.
Writes(ops) == CountOps(ops, {"writeOk", "writeFail"})

LastOp(ops) == ops[Len(ops)]

\* C33 as stated: a call of setState reinitializes at most once and writes at
\* most twice.
C33_OneReinitPerCall == Reinits(callOps) <= 1 /\ Writes(callOps) <= 2

\* C33 amended: a call of setState reinitializes at most twice and writes at
\* most twice, and it reinitializes twice only when it began with a
\* reinitialization (the failure counter was nonzero at entry) that succeeded
\* and its first write then failed; a call that begins with a write
\* reinitializes at most once.
C33_TwoReinitsPerCall ==
    /\ Reinits(callOps) <= 2
    /\ Writes(callOps) <= 2
    /\ CountOps(callOps, {"close"}) <= Reinits(callOps) + 1
    /\ Reinits(callOps) = 2 =>
          callOps[1] = "openOk" /\ callOps[2] = "writeFail"
    /\ callOps # <<>> /\ callOps[1] \in {"writeOk", "writeFail"} =>
          Reinits(callOps) <= 1

\* A call entered with a nonzero counter has reopened the device, failed its
\* write, reopened the device again and retried the write.
C33_Witness ==
    /\ spc = "ret"
    /\ Reinits(callOps) = 2
    /\ Writes(callOps) = 2

\* The step is a call of setState.
CallStep == spc \in {"idle", "ret"} /\ spc' \notin {"idle", "ret"}

\* C34: a call of setState made while the failure counter is nonzero
\* reinitializes before any write, and when that reinitialization fails the
\* call returns the error (or the process quits at the ceiling) without a
\* write on the device.
C34_ReinitFirst ==
    /\ [][CallStep =>
             /\ callOps' = <<>>
             /\ failures > 0 => spc' \in {"r1c", "r1o"}
             /\ failures = 0 => spc' = "w1"]_vars
    /\ [](spc \in {"r1c", "r1o"} => Writes(callOps) = 0)
    /\ [][(spc \in {"r1c", "r1o"}) /\ spc' \notin {"r1c", "r1o"} =>
             /\ leds' = leds
             /\ LastOp(callOps') = "openFail" =>
                   sErr' /\ (spc' = "ret" \/ exit' = "fatalOpen")
             /\ LastOp(callOps') = "openOk" => spc' = "w1"
       ]_vars
    /\ [](callOps # <<>> /\ callOps[1] \in {"close", "openFail"} /\
            "openFail" \in {callOps[i] : i \in 1..2 \cap DOMAIN callOps}
             => Writes(callOps) = 0 /\ callOps[Len(callOps)] = "openFail")

\* A call entered with a nonzero counter has returned the error of its failed
\* reinitialization, having written nothing.
C34_Witness ==
    /\ spc = "ret"
    /\ exit = "running"
    /\ sErr
    /\ callOps = <<"openFail">>
    /\ failures = 2

\* The step is a failed open, a successful open, a successful first write.
OpenStep == spc \in {"r1o", "r2o"} /\ Len(callOps') = Len(callOps) + 1

FirstWriteStep == spc = "w1" /\ Len(callOps') = Len(callOps) + 1

\* C37: while the process runs the failure counter is between 0 and
\* maxFailures, and it changes only by +1 in a failed open and by a reset to 0
\* in a successful open or a successful first write.
C37_FailureCounter ==
    /\ [](exit = "running" => 0 <= failures /\ failures <= maxFailures)
    /\ [][failures' # failures =>
             \/ /\ OpenStep
                /\ LastOp(callOps') = "openFail"
                /\ failures' = failures + 1
             \/ /\ OpenStep
                /\ LastOp(callOps') = "openOk"
                /\ failures' = 0
             \/ /\ FirstWriteStep
                /\ LastOp(callOps') = "writeOk"
                /\ failures' = 0]_vars
    /\ [][OpenStep /\ LastOp(callOps') = "openFail" => failures' = failures + 1]_vars
    /\ [][OpenStep /\ LastOp(callOps') = "openOk" => failures' = 0]_vars

\* Two opens in a row have failed below the ceiling and the process runs on.
C37_Witness ==
    /\ exit = "running"
    /\ failures = 2
    /\ failures = maxFailures
    /\ spc = "ret"

\* C38: between the calls of setState, and whenever a call is about to write,
\* the handle is open iff the failure counter is zero; a write of setState
\* never finds the handle absent, also after a failed open at construction.
C38_HandleOpenIffNoFailures ==
    /\ [](spc \in {"idle", "ret", "w1", "w2"} /\ exit = "running" =>
             (device = "open" <=> failures = 0))
    /\ [](spc \in {"w1", "w2"} => device = "open")
    /\ [](exit # "panic")

\* The open at construction failed, and the first call has reopened the
\* device and is about to write.
C38_Witness ==
    /\ spc = "w1"
    /\ callOps = <<"openOk">>
    /\ device = "open"
    /\ failures = 0
    /\ everFailed

(***************************************************************************)
(* The direct write of signalHandler.                                      *)
(***************************************************************************)
\* C39: the direct Off write of the signal handler is never performed on an
\* absent or closed handle: the handler does not find blinker.device nil when
\* it starts the write, and the handle is not closed while the write is in
\* progress.
C39_HandlerWritesOpenHandle ==
    /\ ~(exit = "panic" /\ hpc = "write")
    /\ hpc = "writing" => device = "open"

(***************************************************************************)
(* Progress of the pattern runner and of the signal handler.               *)
(***************************************************************************)
\* C35: under fair scheduling every request in the channel is eventually
\* taken by the pattern runner, also while a flashing state keeps the timer
\* firing, unless the process ends first; and every pass of the loop takes
\* exactly one event: a receive takes one request and no tick, a tick takes
\* the timer and no request, and a tick taken is processed before the next
\* select.
C35_NotStarved ==
    /\ (newState # <<>>) ~> (newState = <<>> \/ exit # "running")
    /\ [][RecvStep => Len(newState') = Len(newState) - 1 /\ ticker' # "fired"]_vars
    /\ [][TickStep => ticker = "armed" /\ ticker' = "fired" /\ newState' = newState]_vars
    /\ [][Len(newState') < Len(newState) => RecvStep]_vars
    /\ [][ticker' = "fired" /\ ticker # "fired" => TickStep]_vars
    /\ [](rpc = "select" => ticker # "fired")

\* While Red Flash ticks, an equal request has been taken out of the channel
\* and the timer is still armed.
C35_Witness ==
    /\ rpc = "select"
    /\ currentState = RedFlash
    /\ tickPair # <<>>
    /\ lastEvent = "noop"
    /\ newState = <<>>
    /\ ticker = "armed"

\* C36: under fair scheduling, once signalHandler has taken a termination
\* signal the process eventually ends, and a handler blocked in its send of
\* Black on a full channel eventually leaves the send (or the process ends).
C36_HandlerTerminates ==
    /\ (hpc # "wait") ~> (exit # "running")
    /\ (hpc = "blocked") ~> (hpc # "blocked" \/ exit # "running")

\* The handler waits in its send of Black: the channel holds a request the
\* pattern runner has not taken, the polling loop waits to send as well and
\* Red Flash keeps the timer armed.
C36_Witness ==
    /\ hpc = "blocked"
    /\ hSaw = 0
    /\ Len(newState) = 1
    /\ mpc = "blocked"
    /\ currentState = RedFlash
    /\ ticker = "armed"

====
